---- MODULE Spec2Model ----
(***************************************************************************)
(* A model of the arXiv LaTeX download / extraction pipeline:             *)
(*   pipeline/src/arxiv_digest/download.py       (LaTeXDownloader, main)   *)
(*   pipeline/src/arxiv_digest/extract_latex.py  (LaTeXParser,             *)
(*                                                LaTeXMetadataExtractor)  *)
(*                                                                         *)
(* Text is a sequence of atoms.  An atom is one character ("{", "%", ...)  *)
(* or one whole word of letters ("begin", "document", ...): the regular    *)
(* expressions of the source only ever look at words as units.            *)
(***************************************************************************)
EXTENDS Integers, Sequences, FiniteSets, TLC

VARIABLES
    mode,               \* entry point in use: "main", "api", "enrich", "tar", "parser"
    pc,                 \* position of the running entry point / handler
    files,              \* output_dir: identifier -> artifact text or NoFile
    pre,                \* output_dir as it was before the run started
    pandoc,             \* download._PANDOC is not None (probed once at import)
    roster,             \* papers of scored_papers_summary, in order
    idx,                \* loop index i of main (0-based), or number of calls
    stats,              \* LaTeXDownloader.stats
    download_metadata,  \* LaTeXDownloader.download_metadata
    cur,                \* locals of the running download_paper / process_paper
    tmpdirs,            \* temporary directories that exist on disk
    made,               \* temporary directories created so far
    log,                \* pipeline steps performed by the running call
    ret,                \* how the last call ended: record, None or exception
    summary,            \* DOWNLOAD_METADATA_PATH: number of times written
    xstats,             \* LaTeXMetadataExtractor.stats
    xdata,              \* extract_source: the bytes given
    xtree,              \* extract_source: entries under extract_dir
    xout,               \* extract_source: paths written outside extract_dir
    xret,               \* extract_source: "True", "False", "raise", or "none" before the call
    arg,                \* a parser function called on its own: the arguments
    res                 \* a parser function called on its own: what it returned

vars == <<mode, pc, files, pre, pandoc, roster, idx, stats, download_metadata,
          cur, tmpdirs, made, log, ret, summary, xstats,
          xdata, xtree, xout, xret, arg, res>>

(***************************************************************************)
(* Bounds                                                                  *)
(***************************************************************************)
MaxRoster == 2      \* papers in a roster / direct calls in a row
MaxNameAtoms == 4   \* atoms in the member names of a crafted tar archive, together
MaxMembers == 2     \* members in a crafted tar archive
MaxPieces == 2      \* pieces in a text given to a parser function
MaxBraceLen == 5    \* characters in a text given to extract_braced_content
MaxBodyPieces == 3  \* pieces after the start of a text given to extract_body
MaxFiles == 2       \* .tex files in a directory given to find_main_tex_file
MaxIntroAtoms == 3  \* words and signs in an introduction given to extract_introduction
MaxStripLen == 5    \* atoms of a text given to strip_comments
MaxTerms == 3       \* terms between the separators of a keyword list

(***************************************************************************)
(* Text helpers (str.find, "in", str.strip, slicing)                       *)
(***************************************************************************)
None == "<None>"
\* no file at a path (Path.exists() is false)
NoFile == <<None>>

\* sub in s, at 1-based position i
MatchAt(s, sub, i) ==
    /\ i >= 1
    /\ i + Len(sub) - 1 <= Len(s)
    /\ SubSeq(s, i, i + Len(sub) - 1) = sub

\* Python's "sub in s"
Contains(s, sub) == \E i \in 1..(Len(s) + 1) : MatchAt(s, sub, i)

\* Python's s.find(sub), 1-based; 0 stands for -1
Find(s, sub) ==
    IF Contains(s, sub)
    THEN CHOOSE i \in 1..(Len(s) + 1) :
            /\ MatchAt(s, sub, i)
            /\ \A j \in 1..(i - 1) : ~MatchAt(s, sub, j)
    ELSE 0

\* s[n:] for a 0-based n
From(s, n) == SubSeq(s, n + 1, Len(s))

\* s[:n] for a 0-based n >= 0
Upto(s, n) == SubSeq(s, 1, IF n < Len(s) THEN n ELSE Len(s))

IsSpace(a) == a \in {" ", "\n"}

RECURSIVE LStrip(_)
LStrip(s) == IF s # <<>> /\ IsSpace(Head(s)) THEN LStrip(Tail(s)) ELSE s

RECURSIVE RStrip(_)
RStrip(s) ==
    IF s # <<>> /\ IsSpace(s[Len(s)]) THEN RStrip(SubSeq(s, 1, Len(s) - 1)) ELSE s

\* Python's s.strip()
Strip(s) == LStrip(RStrip(s))

\* the sequences over alphabet of length lo..hi
SeqsOf(alphabet, lo, hi) == UNION {[1..n -> alphabet] : n \in lo..hi}

(***************************************************************************)
(* Paths inside an archive                                                 *)
(***************************************************************************)
\* name.split("/") : the segments of a member name
RECURSIVE SplitAcc(_, _, _)
SplitAcc(s, seg, acc) ==
    IF s = <<>> THEN Append(acc, seg)
    ELSE IF Head(s) = "/" THEN SplitAcc(Tail(s), <<>>, Append(acc, seg))
    ELSE SplitAcc(Tail(s), Append(seg, Head(s)), acc)

Split(s) == SplitAcc(s, <<>>, <<>>)

DotDot == <<".", ".">>
Dot == <<".">>

\* os.path.normpath of a relative path: [up] counts the parent steps that
\* leave the directory the path is joined to, [segs] is what remains below
RECURSIVE ResolveAcc(_, _, _)
ResolveAcc(raw, up, segs) ==
    IF raw = <<>> THEN [up |-> up, segs |-> segs]
    ELSE IF Head(raw) = <<>> \/ Head(raw) = Dot THEN ResolveAcc(Tail(raw), up, segs)
    ELSE IF Head(raw) = DotDot
         THEN IF segs = <<>> THEN ResolveAcc(Tail(raw), up + 1, segs)
              ELSE ResolveAcc(Tail(raw), up, SubSeq(segs, 1, Len(segs) - 1))
    ELSE ResolveAcc(Tail(raw), up, Append(segs, Head(raw)))

Resolve(raw) == ResolveAcc(raw, 0, <<>>)

IsAbsolute(name) == name # <<>> /\ name[1] = "/"

RECURSIVE RStripSlash(_)
RStripSlash(s) ==
    IF s # <<>> /\ s[Len(s)] = "/" THEN RStripSlash(SubSeq(s, 1, Len(s) - 1)) ELSE s

RECURSIVE LStripSlash(_)
LStripSlash(s) == IF s # <<>> /\ Head(s) = "/" THEN LStripSlash(Tail(s)) ELSE s

\* the resolved path of a member lies outside the directory it is extracted to
Escapes(name) == IsAbsolute(name) \/ Resolve(Split(name)).up > 0

(***************************************************************************)
(* A directory tree: a set of entries [path, kind, content]                *)
(***************************************************************************)
EmptyTree == {}

FileEntry(p, c) == [path |-> p, kind |-> "file", content |-> c]
DirEntry(p) == [path |-> p, kind |-> "dir", content |-> <<>>]

IsFileIn(tree, p) == \E e \in tree : e.path = p /\ e.kind = "file"
IsDirIn(tree, p) == p = <<>> \/ \E e \in tree : e.path = p /\ e.kind = "dir"

FilesOf(tree) == {e \in tree : e.kind = "file"}

Prefixes(p) == {SubSeq(p, 1, n) : n \in 1..Len(p)}

\* Path.write_text / write_bytes of extract_dir / p
WriteFile(tree, p, c) ==
    {e \in tree : e.path # p} \cup {FileEntry(p, c)}

MainTexName == <<"main", ".", "tex">>

(***************************************************************************)
(* extract_source                                                          *)
(***************************************************************************)
\* extract_latex.py:349  member.name.startswith("/") or ".." in member.name
UnsafeName(name) == IsAbsolute(name) \/ Contains(name, DotDot)

\* extract_latex.py:347-351  the members kept for extraction
SafeMembers(members) == SelectSeq(members, LAMBDA m : ~UnsafeName(m.name))

\* tarfile's "data" filter on a member name: leading slashes are stripped,
\* and a member whose resolved path leaves the destination is refused
DataFilterOk(name) == ~Escapes(LStripSlash(name))

\* tarfile extracts one member: makedirs of the upper directories, then the
\* file is opened for writing.  st = [tree, out, err]
ExtractMember(st, m, filtered) ==
    LET name == RStripSlash(IF filtered THEN LStripSlash(m.name) ELSE m.name)
        raw == Split(name)
        target == Resolve(raw)
        upper == Resolve(SubSeq(raw, 1, Len(raw) - 1)).segs
    IN  IF filtered /\ ~DataFilterOk(m.name)
        THEN [st EXCEPT !.err = "filter"]
        ELSE IF Escapes(name)
        THEN [st EXCEPT !.out = st.out \cup {m.name}]
        ELSE IF \E q \in Prefixes(upper) : IsFileIn(st.tree, q)
        THEN [st EXCEPT !.err = "oserror"]          \* NotADirectoryError
        ELSE LET t1 == st.tree \cup {DirEntry(q) : q \in Prefixes(upper)}
             IN  IF IsDirIn(t1, target.segs)
                 THEN [st EXCEPT !.tree = t1, !.err = "oserror"]   \* IsADirectoryError
                 ELSE [st EXCEPT !.tree = WriteFile(t1, target.segs, m.content)]

\* tar.extractall: the members in archive order, stopping at the first error
RECURSIVE ExtractAll(_, _, _)
ExtractAll(st, members, filtered) ==
    IF members = <<>> \/ st.err # "none" THEN st
    ELSE ExtractAll(ExtractMember(st, Head(members), filtered), Tail(members), filtered)

NewExtraction == [tree |-> EmptyTree, out |-> {}, err |-> "none"]

\* what a careless extraction would do: tar.extractall(path=extract_dir)
TarAttemptTrusting(data) == ExtractAll(NewExtraction, data.members, FALSE)

\* extract_latex.py:344-355  the tar.gz attempt
TarAttempt(data) == ExtractAll(NewExtraction, SafeMembers(data.members), TRUE)

DocClassMark == <<"\\", "documentclass">>
BeginDocMark == <<"\\", "begin", "{", "document", "}">>
EndDocMark == <<"\\", "end", "{", "document", "}">>

\* the decompressed bytes of a tar.gz read as one stream: not LaTeX text
TarBytes == <<"ustar">>

\* extract_latex.py:357-374  the gzip attempt, then the plain-text attempt
AfterTar(data, tree, out) ==
    IF data.fmt \in {"targz", "gzip"}
    THEN IF data.fmt = "gzip" /\ ~data.complete
         THEN [ret |-> "raise", tree |-> tree, out |-> out]      \* EOFError
         ELSE IF IsDirIn(tree, <<MainTexName>>)
         THEN [ret |-> "False", tree |-> tree, out |-> out]      \* OSError, then undecodable
         ELSE [ret |-> "True", out |-> out,
               tree |-> WriteFile(tree, <<MainTexName>>,
                                  IF data.fmt = "gzip" THEN data.payload ELSE TarBytes)]
    ELSE IF data.fmt = "text"
              /\ (Contains(data.payload, DocClassMark) \/ Contains(data.payload, BeginDocMark))
    THEN [ret |-> "True", tree |-> WriteFile(tree, <<MainTexName>>, data.payload), out |-> out]
    ELSE [ret |-> "False", tree |-> tree, out |-> out]

\* extract_latex.py:330-374  LaTeXMetadataExtractor.extract_source
ExtractSource(data) ==
    IF data.fmt = "targz"
    THEN LET st == TarAttempt(data)
         IN  IF st.err = "none" THEN [ret |-> "True", tree |-> st.tree, out |-> st.out]
             ELSE IF st.err = "oserror"
             THEN [ret |-> "raise", tree |-> st.tree, out |-> st.out]
             ELSE AfterTar(data, st.tree, st.out)
    ELSE AfterTar(data, EmptyTree, {})

TarGz(members) == [fmt |-> "targz", members |-> members, payload |-> <<>>, complete |-> TRUE]
Gzip(text, complete) == [fmt |-> "gzip", members |-> <<>>, payload |-> text, complete |-> complete]
PlainText(text) == [fmt |-> "text", members |-> <<>>, payload |-> text, complete |-> TRUE]
Binary == [fmt |-> "binary", members |-> <<>>, payload |-> <<>>, complete |-> TRUE]

(***************************************************************************)
(* Atoms: letters, words and case                                          *)
(***************************************************************************)
\* the atoms that stand for a run of letters
Words == {"x", "y", "old", "md", "foo", "begin", "end", "document", "documentclass",
          "appendix", "Appendix", "appendices", "section", "Section",
          "bibliography", "bibliographystyle", "input", "include",
          "cite", "ref", "label", "eqref", "cref", "Cref",
          "emph", "textbf", "textit", "text", "textrm", "textsc",
          "keywords", "IEEEkeywords", "sep", "introduction", "Introduction",
          "main", "paper", "ms", "article", "tex", "sec", "ustar", "a"}

Digits == {"1"}

\* n copies of the one-character string a, as one string
RECURSIVE Rep(_, _)
Rep(a, n) == IF n = 0 THEN ""
             ELSE IF n % 2 = 0 THEN LET h == Rep(a, n \div 2) IN h \o h
             ELSE a \o Rep(a, n - 1)

\* a long word: the letter x repeated
IsRun(a) == Len(a) > 1 /\ a = Rep("x", Len(a))

\* the atom that stands for one letter outside ASCII (e with an acute accent):
\* one character of a str, two bytes of the UTF-8 file
NonAsciiLetter == "<e-acute>"

\* [a-zA-Z]+ of the re module
IsLetters(a) == a \in Words \/ IsRun(a)
\* \w of the re module: a letter, a digit or an underscore
IsWordChar(a) == a \in Words \cup Digits \cup {"_", NonAsciiLetter} \/ IsRun(a)

\* len() of the str an atom stands for, and of a text
CharLen(a) == IF a = NonAsciiLetter THEN 1 ELSE Len(a)
RECURSIVE TextLen(_)
TextLen(s) == IF s = <<>> THEN 0 ELSE CharLen(Head(s)) + TextLen(Tail(s))

\* the size in bytes of the UTF-8 encoding of an atom, and of a text
ByteLen(a) == IF a = NonAsciiLetter THEN 2 ELSE Len(a)
RECURSIVE TextBytes(_)
TextBytes(s) == IF s = <<>> THEN 0 ELSE ByteLen(Head(s)) + TextBytes(Tail(s))

\* s[:n] counted in characters: the atom the cut falls into is cut as well
RECURSIVE TakeChars(_, _)
\* a cut that keeps the whole text
TakeAll(s, n) == s

TakeChars(s, n) ==
    IF s = <<>> \/ n <= 0 THEN <<>>
    ELSE IF CharLen(Head(s)) <= n
    THEN <<Head(s)>> \o TakeChars(Tail(s), n - CharLen(Head(s)))
    ELSE <<SubSeq(Head(s), 1, n)>>

\* str.lower() on one atom (re.IGNORECASE compares case-folded text)
Lower(a) == IF a = "Appendix" THEN "appendix"
            ELSE IF a = "Section" THEN "section"
            ELSE IF a \in {"Introduction", "INTRODUCTION"} THEN "introduction"
            ELSE a

LowerAll(s) == [i \in 1..Len(s) |-> Lower(s[i])]

\* the atom at position i, or "" past either end of the text
At(s, i) == IF i >= 1 /\ i <= Len(s) THEN s[i] ELSE ""

\* the smallest j >= i with s[j] = a, or 0
NextIndexOf(s, a, i) ==
    IF \E j \in i..Len(s) : s[j] = a
    THEN CHOOSE j \in i..Len(s) : s[j] = a /\ \A k \in i..(j - 1) : s[k] # a
    ELSE 0

(***************************************************************************)
(* download.extract_body                                                   *)
(***************************************************************************)
\* download.py:36-44  APPENDIX_PATTERN matches at position i of body
\* (re.IGNORECASE); the length of the match does not matter to the caller
AppendixPatternAt(body, i) ==
    LET b == LowerAll(body)
    IN  \/ /\ MatchAt(b, <<"\\", "appendix">>, i)                    \* \\appendix\b
           /\ ~IsWordChar(At(b, i + 2))
        \/ MatchAt(b, <<"\\", "begin", "{", "appendix", "}">>, i)
        \/ \E star \in {0, 1} :                                       \* \\section\*?\{...
              /\ MatchAt(b, <<"\\", "section">>, i)
              /\ star = 1 => At(b, i + 2) = "*"
              /\ At(b, i + 2 + star) = "{"
              /\ At(b, i + 3 + star) \in {"appendix", "appendices"}
              /\ At(b, i + 4 + star) \in {" ", "\n", "}", "["}
        \/ MatchAt(b, <<"\\", "bibliography", "{">>, i)
        \/ MatchAt(b, <<"\\", "bibliographystyle", "{">>, i)
        \/ MatchAt(b, <<"\\", "end", "{", "document", "}">>, i)

\* a search that reports the last match instead of the first
AppendixSearchLast(body) ==
    IF \E i \in 1..Len(body) : AppendixPatternAt(body, i)
    THEN CHOOSE i \in 1..Len(body) :
            /\ AppendixPatternAt(body, i)
            /\ \A j \in (i + 1)..Len(body) : ~AppendixPatternAt(body, j)
    ELSE 0

\* APPENDIX_PATTERN.search(body): m.start() as a 1-based position, 0 for no match
AppendixSearch(body) ==
    IF \E i \in 1..Len(body) : AppendixPatternAt(body, i)
    THEN CHOOSE i \in 1..Len(body) :
            /\ AppendixPatternAt(body, i)
            /\ \A j \in 1..(i - 1) : ~AppendixPatternAt(body, j)
    ELSE 0

\* an extract_body that takes the whole text when the marker is missing
extract_body_unmarked(content) ==
    LET doc_start == Find(content, BeginDocMark)
    IN  IF doc_start = 0 THEN Strip(content)
        ELSE LET body == From(content, doc_start - 1 + Len(BeginDocMark))
                 m == AppendixSearch(body)
             IN  IF m # 0 THEN Strip(Upto(body, m - 1)) ELSE Strip(body)

\* download.py:47-61
extract_body(content) ==
    LET doc_start == Find(content, BeginDocMark)
    IN  IF doc_start = 0 THEN <<>>
        ELSE LET body == From(content, doc_start - 1 + Len(BeginDocMark))
                 m == AppendixSearch(body)
             IN  IF m # 0 THEN Strip(Upto(body, m - 1)) ELSE Strip(body)

(***************************************************************************)
(* LaTeXParser.strip_comments                                              *)
(***************************************************************************)
\* extract_latex.py:109  re.sub(r"(?<!\\)%.*", "", content)
RECURSIVE StripCommentsFrom(_, _, _)
\* a stripper that takes every percent sign for the start of a comment
RECURSIVE StripEveryPercentFrom(_, _, _)
StripEveryPercentFrom(s, i, acc) ==
    IF i > Len(s) THEN acc
    ELSE IF s[i] = "%"
    THEN LET nl == NextIndexOf(s, "\n", i)
         IN  IF nl = 0 THEN acc ELSE StripEveryPercentFrom(s, nl, acc)
    ELSE StripEveryPercentFrom(s, i + 1, Append(acc, s[i]))

StripCommentsFrom(s, i, acc) ==
    IF i > Len(s) THEN acc
    ELSE IF s[i] = "%" /\ At(s, i - 1) # "\\"
    THEN LET nl == NextIndexOf(s, "\n", i)
         IN  IF nl = 0 THEN acc ELSE StripCommentsFrom(s, nl, acc)
    ELSE StripCommentsFrom(s, i + 1, Append(acc, s[i]))

strip_comments(content) == StripCommentsFrom(content, 1, <<>>)

(***************************************************************************)
(* LaTeXParser.clean_latex : one operator per re.sub of the source         *)
(***************************************************************************)
CiteCmds == {"cite", "ref", "label", "eqref", "cref", "Cref"}
WrapCmds == {"emph", "textbf", "textit", "text", "textrm", "textsc"}

\* extract_latex.py:146  \\(?:cite|ref|label|eqref|cref|Cref)\{[^}]*\}  -> ""
RECURSIVE RemoveCites(_, _, _)
RemoveCites(s, i, acc) ==
    IF i > Len(s) THEN acc
    ELSE LET j == NextIndexOf(s, "}", i + 3)
         IN  IF s[i] = "\\" /\ At(s, i + 1) \in CiteCmds /\ At(s, i + 2) = "{" /\ j # 0
             THEN RemoveCites(s, j + 1, acc)
             ELSE RemoveCites(s, i + 1, Append(acc, s[i]))

\* extract_latex.py:148  \\(?:emph|textbf|...)\{([^}]*)\}  -> \1
RECURSIVE UnwrapFormatting(_, _, _)
UnwrapFormatting(s, i, acc) ==
    IF i > Len(s) THEN acc
    ELSE LET j == NextIndexOf(s, "}", i + 3)
         IN  IF s[i] = "\\" /\ At(s, i + 1) \in WrapCmds /\ At(s, i + 2) = "{" /\ j # 0
             THEN UnwrapFormatting(s, j + 1, acc \o SubSeq(s, i + 3, j - 1))
             ELSE UnwrapFormatting(s, i + 1, Append(acc, s[i]))

\* the smallest k >= i where the two atoms a, b stand side by side, or 0
NextPairOf(s, a, b, i) ==
    IF \E k \in i..Len(s) : s[k] = a /\ At(s, k + 1) = b
    THEN CHOOSE k \in i..Len(s) :
            /\ s[k] = a /\ At(s, k + 1) = b
            /\ \A m \in i..(k - 1) : ~(s[m] = a /\ At(s, m + 1) = b)
    ELSE 0

\* extract_latex.py:150-151,155  open .*? close with re.DOTALL  -> ""
\* (open and close are two atoms each: \[ \], \( \), $$ $$)
RECURSIVE RemoveDelimited(_, _, _, _, _, _, _)
RemoveDelimited(s, o1, o2, c1, c2, i, acc) ==
    IF i > Len(s) THEN acc
    ELSE LET k == NextPairOf(s, c1, c2, i + 2)
         IN  IF s[i] = o1 /\ At(s, i + 1) = o2 /\ k # 0
             THEN RemoveDelimited(s, o1, o2, c1, c2, k + 2, acc)
             ELSE RemoveDelimited(s, o1, o2, c1, c2, i + 1, Append(acc, s[i]))

\* a dollar sign with no dollar sign next to it
LoneDollar(s, i) == At(s, i) = "$" /\ At(s, i - 1) # "$" /\ At(s, i + 1) # "$"

\* the closing dollar of the inline math opened at i: the nearest lone dollar
\* on the same line, or 0
InlineMathEnd(s, i) ==
    LET ok(j) == LoneDollar(s, j) /\ \A k \in (i + 1)..(j - 1) : s[k] # "\n"
    IN  IF \E j \in (i + 1)..Len(s) : ok(j)
        THEN CHOOSE j \in (i + 1)..Len(s) : ok(j) /\ \A m \in (i + 1)..(j - 1) : ~ok(m)
        ELSE 0

\* extract_latex.py:153  (?<!\$)\$(?!\$).*?(?<!\$)\$(?!\$)  -> ""
RECURSIVE RemoveInlineMath(_, _, _)
RemoveInlineMath(s, i, acc) ==
    IF i > Len(s) THEN acc
    ELSE IF LoneDollar(s, i) /\ InlineMathEnd(s, i) # 0
    THEN RemoveInlineMath(s, InlineMathEnd(s, i) + 1, acc)
    ELSE RemoveInlineMath(s, i + 1, Append(acc, s[i]))

\* the first position at or after i that holds no letters
RECURSIVE LettersEnd(_, _)
LettersEnd(s, i) == IF IsLetters(At(s, i)) THEN LettersEnd(s, i + 1) ELSE i

\* (?:\{[^}]*\})* from position i: the position after the last braced group
RECURSIVE BracedGroupsEnd(_, _)
BracedGroupsEnd(s, i) ==
    IF At(s, i) = "{" /\ NextIndexOf(s, "}", i + 1) # 0
    THEN BracedGroupsEnd(s, NextIndexOf(s, "}", i + 1) + 1)
    ELSE i

\* the end (exclusive) of \\[a-zA-Z]+\*?(?:\[[^\]]*\])?(?:\{[^}]*\})* matched at i
CommandEnd(s, i) ==
    LET e1 == LettersEnd(s, i + 1)
        e2 == IF At(s, e1) = "*" THEN e1 + 1 ELSE e1
        rb == NextIndexOf(s, "]", e2 + 1)
        e3 == IF At(s, e2) = "[" /\ rb # 0 THEN rb + 1 ELSE e2
    IN  BracedGroupsEnd(s, e3)

\* extract_latex.py:157  remaining commands, with their arguments  -> ""
RECURSIVE RemoveCommands(_, _, _)
RemoveCommands(s, i, acc) ==
    IF i > Len(s) THEN acc
    ELSE IF s[i] = "\\" /\ IsLetters(At(s, i + 1))
    THEN RemoveCommands(s, CommandEnd(s, i), acc)
    ELSE RemoveCommands(s, i + 1, Append(acc, s[i]))

\* extract_latex.py:159  [{}]  -> ""
RemoveBraces(s) == SelectSeq(s, LAMBDA a : a \notin {"{", "}"})

\* extract_latex.py:161  \s+ -> " "
RECURSIVE CollapseSpace(_, _, _)
CollapseSpace(s, i, acc) ==
    IF i > Len(s) THEN acc
    ELSE IF IsSpace(s[i])
    THEN IF IsSpace(At(s, i - 1)) THEN CollapseSpace(s, i + 1, acc)
         ELSE CollapseSpace(s, i + 1, Append(acc, " "))
    ELSE CollapseSpace(s, i + 1, Append(acc, s[i]))

\* extract_latex.py:138-162
clean_latex(text) ==
    LET t1 == RemoveCites(text, 1, <<>>)
        t2 == UnwrapFormatting(t1, 1, <<>>)
        t3 == RemoveDelimited(t2, "\\", "[", "\\", "]", 1, <<>>)
        t4 == RemoveDelimited(t3, "\\", "(", "\\", ")", 1, <<>>)
        t5 == RemoveInlineMath(t4, 1, <<>>)
        t6 == RemoveDelimited(t5, "$", "$", "$", "$", 1, <<>>)
        t7 == RemoveCommands(t6, 1, <<>>)
        t8 == RemoveBraces(t7)
    IN  Strip(CollapseSpace(t8, 1, <<>>))

(***************************************************************************)
(* LaTeXParser.extract_braced_content, extract_keywords,                   *)
(* extract_introduction                                                    *)
(***************************************************************************)
\* extract_latex.py:125-135  the scan; positions are 0-based as in the source
RECURSIVE BraceScan(_, _, _, _)
\* a scan that counts escaped braces as well
RECURSIVE BraceScanCountingEscaped(_, _, _, _)
BraceScanCountingEscaped(content, start_pos, i, depth) ==
    IF i >= Len(content) THEN <<>>
    ELSE LET c == content[i + 1]
         IN  IF c = "{" THEN BraceScanCountingEscaped(content, start_pos, i + 1, depth + 1)
             ELSE IF c = "}"
             THEN IF depth - 1 = 0 THEN SubSeq(content, start_pos + 2, i)
                  ELSE BraceScanCountingEscaped(content, start_pos, i + 1, depth - 1)
             ELSE BraceScanCountingEscaped(content, start_pos, i + 1, depth)

BraceScan(content, start_pos, i, depth) ==
    IF i >= Len(content) THEN <<>>
    ELSE LET c == content[i + 1]
             unescaped == i = 0 \/ content[i] # "\\"
         IN  IF c = "{" /\ unescaped THEN BraceScan(content, start_pos, i + 1, depth + 1)
             ELSE IF c = "}" /\ unescaped
             THEN IF depth - 1 = 0 THEN SubSeq(content, start_pos + 2, i)
                  ELSE BraceScan(content, start_pos, i + 1, depth - 1)
             ELSE BraceScan(content, start_pos, i + 1, depth)

\* extract_latex.py:111-135
extract_braced_content(content, start_pos) ==
    IF start_pos >= Len(content) \/ content[start_pos + 1] # "{" THEN <<>>
    ELSE BraceScan(content, start_pos, start_pos, 0)

\* the first position at or after i that holds no white space
RECURSIVE SpacesEnd(_, _)
SpacesEnd(s, i) == IF IsSpace(At(s, i)) THEN SpacesEnd(s, i + 1) ELSE i

\* the least element of a non-empty set of integers
Least(S) == CHOOSE m \in S : \A n \in S : m <= n

\* \\keywords\s*\{ matches at i
KeywordsCmdAt(s, i) ==
    MatchAt(s, <<"\\", "keywords">>, i) /\ At(s, SpacesEnd(s, i + 2)) = "{"

\* re.search(\\begin\{env\}(.*?)\\end\{env\}, re.DOTALL).group(1), or <<>>
EnvironmentBody(s, env) ==
    LET open == <<"\\", "begin", "{", env, "}">>
        close == <<"\\", "end", "{", env, "}">>
        closes(i) == {k \in (i + 5)..Len(s) : MatchAt(s, close, k)}
        starts == {i \in 1..Len(s) : MatchAt(s, open, i) /\ closes(i) # {}}
    IN  IF starts = {} THEN <<>>
        ELSE LET i == Least(starts)
             IN  SubSeq(s, i + 5, Least(closes(i)) - 1)

\* re.split(r"[,;]|\\sep\b", raw)
RECURSIVE SplitKeywords(_, _, _, _)
SplitKeywords(raw, i, part, acc) ==
    IF i > Len(raw) THEN Append(acc, part)
    ELSE IF raw[i] \in {",", ";"} THEN SplitKeywords(raw, i + 1, <<>>, Append(acc, part))
    ELSE IF MatchAt(raw, <<"\\", "sep">>, i) /\ ~IsWordChar(At(raw, i + 2))
    THEN SplitKeywords(raw, i + 2, <<>>, Append(acc, part))
    ELSE SplitKeywords(raw, i + 1, Append(part, raw[i]), acc)

\* an extract_keywords that looks at the environments before the command
extract_keywords_env_first(content) ==
    LET cmds == {i \in 1..Len(content) : KeywordsCmdAt(content, i)}
        raw1 == EnvironmentBody(content, "IEEEkeywords")
        raw2 == IF raw1 # <<>> THEN raw1 ELSE EnvironmentBody(content, "keywords")
        raw == IF raw2 # <<>> \/ cmds = {} THEN raw2
               ELSE extract_braced_content(content, SpacesEnd(content, Least(cmds) + 2) - 1)
        parts == SplitKeywords(raw, 1, <<>>, <<>>)
        cleaned == [k \in 1..Len(parts) |-> clean_latex(parts[k])]
    IN  IF raw = <<>> THEN <<>> ELSE SelectSeq(cleaned, LAMBDA kw : kw # <<>>)

\* extract_latex.py:206-241
extract_keywords(content) ==
    LET cmds == {i \in 1..Len(content) : KeywordsCmdAt(content, i)}
        raw1 == IF cmds = {} THEN <<>>
                ELSE extract_braced_content(content, SpacesEnd(content, Least(cmds) + 2) - 1)
        raw2 == IF raw1 # <<>> THEN raw1 ELSE EnvironmentBody(content, "keywords")
        raw == IF raw2 # <<>> THEN raw2 ELSE EnvironmentBody(content, "IEEEkeywords")
        parts == SplitKeywords(raw, 1, <<>>, <<>>)
        cleaned == [k \in 1..Len(parts) |-> clean_latex(parts[k])]
    IN  IF raw = <<>> THEN <<>> ELSE SelectSeq(cleaned, LAMBDA kw : kw # <<>>)

\* the first position at or after i that holds no digit
RECURSIVE DigitsEnd(_, _)
DigitsEnd(s, i) == IF At(s, i) \in Digits THEN DigitsEnd(s, i + 1) ELSE i

\* \\section\*?\{(?:\d+\.?\s*)?[Ii]ntroduction\} matched at i: the position
\* after the match, or 0
IntroHeadingEnd(s, i) ==
    LET a == IF At(s, i + 2) = "*" THEN i + 3 ELSE i + 2
        d == DigitsEnd(s, a + 1)
        t == IF d = a + 1 THEN d
             ELSE SpacesEnd(s, IF At(s, d) = "." THEN d + 1 ELSE d)
    IN  IF /\ MatchAt(s, <<"\\", "section">>, i)
           /\ At(s, a) = "{"
           /\ At(s, t) \in {"Introduction", "introduction"}
           /\ At(s, t + 1) = "}"
        THEN t + 2 ELSE 0

\* \\(?:section|bibliography|appendix|end\{document\}) matches at k; the
\* pattern has no word boundary, so a longer command name matches as well
IntroBoundaryAt(s, k) ==
    /\ At(s, k) = "\\"
    /\ \/ At(s, k + 1) \in {"section", "bibliography", "bibliographystyle", "appendix"}
       \/ MatchAt(s, <<"end", "{", "document", "}">>, k + 1)

\* extract_latex.py:276  the cap on the introduction text
INTRO_LIMIT == 2000

\* an extract_introduction whose cap counts words and signs, not characters
extract_introduction_by_atoms(content) ==
    LET heads == {i \in 1..Len(content) : IntroHeadingEnd(content, i) # 0}
    IN  IF heads = {} THEN <<>>
        ELSE LET start == IntroHeadingEnd(content, Least(heads))
                 ends == {k \in start..Len(content) : IntroBoundaryAt(content, k)}
                 stop == IF ends = {} THEN Len(content) + 1 ELSE Least(ends)
             IN  Upto(clean_latex(SubSeq(content, start, stop - 1)), INTRO_LIMIT)

\* extract_latex.py:251-276
extract_introduction(content) ==
    LET heads == {i \in 1..Len(content) : IntroHeadingEnd(content, i) # 0}
    IN  IF heads = {} THEN <<>>
        ELSE LET start == IntroHeadingEnd(content, Least(heads))
                 ends == {k \in start..Len(content) : IntroBoundaryAt(content, k)}
                 stop == IF ends = {} THEN Len(content) + 1 ELSE Least(ends)
             IN  TakeChars(clean_latex(SubSeq(content, start, stop - 1)), INTRO_LIMIT)

(***************************************************************************)
(* LaTeXParser.find_main_tex_file                                          *)
(***************************************************************************)
\* extract_latex.py:37
COMMON_NAMES == <<MainTexName, <<"paper", ".", "tex">>, <<"ms", ".", "tex">>,
                  <<"article", ".", "tex">>>>

NameOf(e) == e.path[Len(e.path)]

\* the entries tex_dir.rglob("*.tex") yields (directories included)
TexEntries(tree) ==
    {e \in tree : LET n == NameOf(e)
                  IN  Len(n) >= 2 /\ SubSeq(n, Len(n) - 1, Len(n)) = <<".", "tex">>}

\* the orders in which rglob may yield the entries
Orders(S) == {o \in [1..Cardinality(S) -> S] : \A e \in S : \E i \in DOMAIN o : o[i] = e}

\* find_main_tex_file returning None
NoEntry == [path |-> <<>>, kind |-> None, content |-> <<>>]

\* read_text succeeds and the text holds \documentclass
HasDocClass(e) == e.kind = "file" /\ Contains(e.content, DocClassMark)

\* a locator that goes by size alone
find_main_tex_file_by_size(tex_files) ==
    LET cand == {i \in 1..Len(tex_files) : HasDocClass(tex_files[i])}
        size(i) == TextLen(tex_files[i].content)
    IN  IF cand # {}
        THEN tex_files[CHOOSE i \in cand :
                          \A j \in cand : size(j) < size(i) \/ (size(j) = size(i) /\ i <= j)]
        ELSE NoEntry

\* extract_latex.py:40-75; tex_files is the list rglob returned
find_main_tex_file(tex_files) ==
    LET n == Len(tex_files)
        hit(k, i) == NameOf(tex_files[i]) = COMMON_NAMES[k] /\ HasDocClass(tex_files[i])
        before(k1, i1, k2, i2) == k1 < k2 \/ (k1 = k2 /\ i1 < i2)
        cand == {i \in 1..n : HasDocClass(tex_files[i])}
        size(i) == TextLen(tex_files[i].content)         \* len(content) of the str
    IN  IF \E k \in 1..Len(COMMON_NAMES), i \in 1..n : hit(k, i)
        THEN LET w == CHOOSE w \in (1..Len(COMMON_NAMES)) \X (1..n) :
                        /\ hit(w[1], w[2])
                        /\ \A k \in 1..Len(COMMON_NAMES), i \in 1..n :
                              hit(k, i) => ~before(k, i, w[1], w[2])
             IN  tex_files[w[2]]
        ELSE IF cand # {}
        THEN tex_files[CHOOSE i \in cand :
                          \A j \in cand : size(j) < size(i) \/ (size(j) = size(i) /\ i <= j)]
        ELSE NoEntry

(***************************************************************************)
(* LaTeXParser.expand_inputs                                               *)
(***************************************************************************)
MaxDepth == 10

\* no such location
NoLoc == <<<<None>>>>

\* Locations are paths relative to base_dir of the first call. What the file
\* system holds outside that directory is part of the tree as well: below
\* its parent directories, at paths that start with DotDot, and below the
\* root directory, at paths that start with Root.
Root == <<"/">>

\* the parent directory of loc
ParentOf(loc) ==
    IF loc = <<Root>> THEN loc
    ELSE IF loc = <<>> \/ loc[Len(loc)] = DotDot THEN Append(loc, DotDot)
    ELSE SubSeq(loc, 1, Len(loc) - 1)

\* follow the segments of a path from directory loc, as the file system
\* does; NoLoc when the path passes through something that is not a
\* directory
RECURSIVE Walk(_, _, _)
Walk(tree, loc, raw) ==
    IF raw = <<>> THEN loc
    ELSE IF ~IsDirIn(tree, loc) THEN NoLoc
    ELSE IF Head(raw) = <<>> \/ Head(raw) = Dot THEN Walk(tree, loc, Tail(raw))
    ELSE IF Head(raw) = DotDot THEN Walk(tree, ParentOf(loc), Tail(raw))
    ELSE Walk(tree, Append(loc, Head(raw)), Tail(raw))

\* where base_dir / filename starts: an absolute filename replaces base_dir
JoinStart(base, filename) == IF IsAbsolute(filename) THEN <<Root>> ELSE base

\* base_dir / filename, when is_file() finds a file there; NoLoc otherwise
Candidate(tree, base, filename) ==
    IF filename = <<>> THEN NoLoc
    ELSE LET loc == Walk(tree, JoinStart(base, filename), Split(filename))
         IN  IF IsFileIn(tree, loc) THEN loc ELSE NoLoc

ContentAt(tree, loc) == (CHOOSE e \in tree : e.path = loc /\ e.kind = "file").content

\* NAME_MAX of the file system: Path.is_file() lets the OSError of stat()
\* through when a path component is longer (errno ENAMETOOLONG is not among
\* the ones pathlib ignores)
NAME_MAX == 255

\* candidate.is_file() raises: a component too long for the file system is
\* looked up in a directory that exists
RECURSIVE WalkRaises(_, _, _)
WalkRaises(tree, loc, raw) ==
    IF raw = <<>> \/ loc = NoLoc \/ ~IsDirIn(tree, loc) THEN FALSE
    ELSE IF Head(raw) = <<>> \/ Head(raw) = Dot THEN WalkRaises(tree, loc, Tail(raw))
    ELSE IF Head(raw) = DotDot THEN WalkRaises(tree, ParentOf(loc), Tail(raw))
    ELSE IF TextBytes(Head(raw)) > NAME_MAX THEN TRUE
    ELSE WalkRaises(tree, Append(loc, Head(raw)), Tail(raw))

IsFileRaises(tree, base, filename) ==
    WalkRaises(tree, JoinStart(base, filename), Split(filename))

\* \\(?:input|include)\{([^}]+)\} matches at i: the position of the closing
\* brace, or 0
InputDirectiveEnd(s, i) ==
    LET j == NextIndexOf(s, "}", i + 3)
    IN  IF s[i] = "\\" /\ At(s, i + 1) \in {"input", "include"} /\ At(s, i + 2) = "{"
           /\ j > i + 3
        THEN j ELSE 0

\* what one call of expand_inputs did: the text it returns, whether it raised
\* instead, the deepest call that scanned its text for directives, and
\* whether some call found depth > MaxDepth and returned its text as it was
Expanded(text, depth) == [text |-> text, raised |-> FALSE, deepest |-> depth, capped |-> FALSE]

RECURSIVE Expansion(_, _, _, _)
RECURSIVE ExpandFrom(_, _, _, _, _, _)

\* extract_latex.py:92-102  _replace, applied by re.sub from left to right
ExpandFrom(s, i, acc, tree, base, depth) ==
    IF i > Len(s) \/ acc.raised THEN acc
    ELSE LET j == InputDirectiveEnd(s, i)
         IN  IF j = 0
             THEN ExpandFrom(s, i + 1, [acc EXCEPT !.text = Append(@, s[i])], tree, base, depth)
             ELSE LET filename == SubSeq(s, i + 3, j - 1)
                      with_tex == filename \o <<".", "tex">>
                      c1 == Candidate(tree, base, filename)
                      c2 == Candidate(tree, base, with_tex)
                      c == IF c1 # NoLoc THEN c1 ELSE c2
                      sub == IF c = NoLoc THEN Expanded(SubSeq(s, i, j), depth)
                             ELSE Expansion(ContentAt(tree, c), tree,
                                            SubSeq(c, 1, Len(c) - 1), depth + 1)
                  IN  IF \/ IsFileRaises(tree, base, filename)
                         \/ c1 = NoLoc /\ IsFileRaises(tree, base, with_tex)
                      THEN [acc EXCEPT !.raised = TRUE]
                      ELSE ExpandFrom(s, j + 1,
                                      [text |-> acc.text \o sub.text,
                                       raised |-> sub.raised,
                                       deepest |-> IF sub.deepest > acc.deepest
                                                   THEN sub.deepest ELSE acc.deepest,
                                       capped |-> acc.capped \/ sub.capped],
                                      tree, base, depth)

\* an expansion that drops the text it meets beyond the cap
ExpansionDropping(content, tree, base_dir, depth) ==
    IF depth > MaxDepth THEN [Expanded(<<>>, depth - 1) EXCEPT !.capped = TRUE]
    ELSE ExpandFrom(content, 1, Expanded(<<>>, depth), tree, base_dir, depth)

\* extract_latex.py:89-104
Expansion(content, tree, base_dir, depth) ==
    IF depth > MaxDepth THEN [Expanded(content, depth - 1) EXCEPT !.capped = TRUE]
    ELSE ExpandFrom(content, 1, Expanded(<<>>, depth), tree, base_dir, depth)

\* extract_latex.py:77-104  the text returned
expand_inputs(content, tree, base_dir, depth) == Expansion(content, tree, base_dir, depth).text

\* extract_latex.py:95-96  an OSError of is_file() leaves expand_inputs
expand_inputs_raises(content, tree, base_dir, depth) ==
    Expansion(content, tree, base_dir, depth).raised

(***************************************************************************)
(* download._latex_to_markdown                                             *)
(***************************************************************************)
\* what subprocess.run of pandoc may do
PandocExit(code, stdout) == [kind |-> "exit", code |-> code, stdout |-> stdout]
PandocTimeout == [kind |-> "timeout", code |-> 0, stdout |-> <<>>]
PandocOSError == [kind |-> "oserror", code |-> 0, stdout |-> <<>>]

\* a formatter whose fallback hands back the LaTeX body as it is
latex_to_markdown_raw(body, have_pandoc, run) ==
    IF have_pandoc /\ run.kind = "exit" /\ run.code = 0 /\ Strip(run.stdout) # <<>>
    THEN Strip(run.stdout)
    ELSE body

\* download.py:64-95; have_pandoc is _PANDOC is not None
latex_to_markdown(body, have_pandoc, run) ==
    IF have_pandoc /\ run.kind = "exit" /\ run.code = 0 /\ Strip(run.stdout) # <<>>
    THEN Strip(run.stdout)
    ELSE clean_latex(body)

(***************************************************************************)
(* Inputs of the downloader: identifiers, source bundles, pandoc runs      *)
(***************************************************************************)
\* new-style identifiers; <output_dir>/<id>.txt lies directly in output_dir
FlatIds == {"2602.00001", "2602.00002"}
\* old-style identifiers hold a slash: <output_dir>/math/0601001.txt lies in
\* a subdirectory, which LaTeXDownloader never creates
SlashIds == {"math/0601001"}
Ids == FlatIds \cup SlashIds

OldText == <<"old">>

DocClassLine == <<"\\", "documentclass", "{", "article", "}", "\n">>
DocOf(body) == DocClassLine \o BeginDocMark \o body \o EndDocMark
InputSec == <<"\\", "input", "{", "sec", "}">>

DlBodies == { <<"\n", "x", "\n">>,                       \* plain prose
              <<" ", "\n">>,                             \* blank
              <<"\\", "foo", "\n">>,                     \* only a command
              <<"x", "\\", "appendix", "y">>,            \* prose, then an appendix
              <<"%", "x", "\n">>,                        \* only a comment
              <<"\\", "section", "{", "Introduction", "}", "x">>,   \* an introduction
              InputSec }                                 \* only an inclusion

DlDocs == {DocOf(b) : b \in DlBodies}
             \cup { DocClassLine \o <<"x">>,             \* no \begin{document}
                    <<"x", "\n">> }                      \* no \documentclass

File(name, text) == [name |-> name, content |-> text]

DlArchives ==
    {TarGz(<<File(MainTexName, d)>>) : d \in DlDocs}
      \cup { TarGz(<<>>),
             TarGz(<<File(MainTexName, DocOf(InputSec)), File(<<"sec", ".", "tex">>, <<"y">>)>>),
             TarGz(<<File(<<"x", ".", "tex">>, DocOf(<<"x">>)),
                     File(<<"y", ".", "tex">>, DocOf(<<"y">>))>>),
             TarGz(<<File(<<"a">>, <<"x">>), File(<<"a", "/", "x", ".", "tex">>, <<"x">>)>>),
             TarGz(<<File(MainTexName,                   \* includes a name that is too long
                          DocOf(<<"\\", "input", "{", Rep("x", NAME_MAX + 1), "}">>))>>),
             Gzip(DocOf(<<"x">>), TRUE),
             Gzip(DocOf(<<"x">>), FALSE),
             PlainText(DocOf(<<"x">>)),
             PlainText(<<"x">>),
             Binary }

NoData == [fmt |-> None, members |-> <<>>, payload |-> <<>>, complete |-> TRUE]

\* what requests.get may do: answer with a status code, or raise a
\* RequestException (timeout, connection error)
HttpResponse(code, content) == [kind |-> "response", status_code |-> code, content |-> content]
RequestFailed == [kind |-> "exception", status_code |-> 0, content |-> NoData]

Responses == {HttpResponse(200, d) : d \in DlArchives}
                \cup {HttpResponse(404, NoData), HttpResponse(500, NoData), RequestFailed}

\* a download_source without raise_for_status: the body of an error page is
\* handed on
download_source_unchecked(resp) ==
    IF resp.kind = "exception" THEN NoData
    ELSE IF resp.status_code = 404 THEN NoData
    ELSE IF resp.status_code >= 400 THEN Binary
    ELSE resp.content

\* extract_latex.py:310-328  download_source: the bytes, or None
download_source(resp) ==
    IF resp.kind = "exception" THEN NoData            \* except RequestException
    ELSE IF resp.status_code = 404 THEN NoData
    ELSE IF resp.status_code >= 400 THEN NoData       \* raise_for_status, caught
    ELSE resp.content

PandocRuns == { PandocExit(0, <<"md", "\n">>), PandocExit(0, <<"\n">>),
                PandocExit(1, <<>>), PandocTimeout, PandocOSError }

\* pandoc failing after it wrote some output
FailedPandocRuns == {PandocExit(1, <<"md", "\n">>), PandocExit(2, <<"md">>)}

(***************************************************************************)
(* LaTeXDownloader                                                         *)
(***************************************************************************)
\* download.py:105-113  the counters of a new LaTeXDownloader
NoStats == [total |-> 0, success |-> 0, skipped |-> 0, no_source |-> 0,
            extract_failed |-> 0, no_main_tex |-> 0, empty_body |-> 0]
\* extract_latex.py:308  the counters of a new LaTeXMetadataExtractor
NoXStats == [total |-> 0, success |-> 0, failed |-> 0, skipped |-> 0]

Statuses == {"success", "skipped", "no_source", "extract_failed", "no_main_tex", "empty_body"}

NoCall == [id |-> None, data |-> NoData, tree |-> EmptyTree, main |-> NoEntry,
           body |-> <<>>, body_text |-> <<>>, status |-> None, size |-> 0,
           exc |-> None, tmp |-> 0, stats0 |-> NoStats, files0 |-> <<>>]

NoReturn == [kind |-> None]
Returned(record) == [kind |-> "return", record |-> record]
Raised(what) == [kind |-> "raise", from |-> what]

\* an existence check that looks at the wrong path
ExistsNever(fs, id) == FALSE

\* download.py:128-129  txt_path.exists()
Exists(fs, id) == id \in FlatIds /\ fs[id] # NoFile

\* download.py:197-210  _create_metadata
create_metadata(id, status, txt_size) ==
    IF status = "success"
    THEN [arxiv_id |-> id, title |-> "", score |-> 0, status |-> status,
          timestamp |-> "now", size_bytes |-> txt_size, path |-> <<"papers", "/", id, ".", "txt">>]
    ELSE [arxiv_id |-> id, title |-> "", score |-> 0, status |-> status,
          timestamp |-> "now", size_bytes |-> txt_size]

Bump(st, key) == [st EXCEPT ![key] = @ + 1]

\* a write that lands somewhere other than txt_path
WriteArtifactElsewhere(fs, id, text) == fs

\* download.py:148  txt_path.write_text(body_text)
WriteArtifact(fs, id, text) == [fs EXCEPT ![id] = text]

\* a cleanup that is skipped
RemoveTreeNever(dirs, tmp_dir) == dirs

\* download.py:155, extract_latex.py:438  shutil.rmtree(tmp_dir, ignore_errors=True)
RemoveTree(dirs, tmp_dir) == dirs \ {tmp_dir}

\* a return statement inside the try block: the finally clause runs next
ReturnStatus(status) ==
    /\ cur' = [cur EXCEPT !.status = status]
    /\ pc' = "dp_finally"

\* download.py:125-134  the call starts: counters, existence check, mkdtemp
DP_Begin(id) ==
    /\ UNCHANGED <<arg, res>>
    /\ IF Exists(files, id)
       THEN /\ stats' = Bump(Bump(stats, "total"), "skipped")
            /\ cur' = [NoCall EXCEPT !.id = id, !.status = "skipped",
                                     !.stats0 = stats, !.files0 = files]
            /\ log' = <<"exists">>
            /\ ret' = Returned(create_metadata(id, "skipped", 0))
            /\ pc' = "dp_returned"
            /\ UNCHANGED <<tmpdirs, made>>
       ELSE /\ stats' = Bump(stats, "total")
            /\ ret' = NoReturn
            /\ cur' = [NoCall EXCEPT !.id = id, !.tmp = made + 1,
                                     !.stats0 = stats, !.files0 = files]
            /\ made' = made + 1
            /\ tmpdirs' = tmpdirs \cup {made + 1}
            /\ log' = <<"exists">>
            /\ pc' = "dp_fetch"
    /\ UNCHANGED <<mode, files, pre, pandoc, roster, download_metadata, summary,
                   xstats, xdata, xtree, xout, xret>>

\* download.py:163-167 with extract_latex.py:310-328  download_source, when
\* requests.get does resp
DP_FetchWith(resp) ==
    /\ UNCHANGED <<arg, res>>
    /\ mode \in {"main", "api"} /\ pc = "dp_fetch"
    /\ log' = Append(log, "fetch")
    /\ LET data == download_source(resp)
       IN  IF data = NoData
           THEN /\ stats' = Bump(stats, "no_source")
                /\ ReturnStatus("no_source")
           ELSE /\ cur' = [cur EXCEPT !.data = data]
                /\ pc' = "dp_extract"
                /\ UNCHANGED stats
    /\ UNCHANGED <<mode, files, pre, pandoc, roster, idx, download_metadata, tmpdirs,
                   made, ret, summary, xstats, xdata, xtree, xout, xret>>

DP_Fetch == \E resp \in Responses : DP_FetchWith(resp)

\* download.py:169-174  extract_source into tmp_dir
DP_Extract ==
    /\ UNCHANGED <<arg, res>>
    /\ mode \in {"main", "api"} /\ pc = "dp_extract"
    /\ log' = Append(log, "extract")
    /\ LET r == ExtractSource(cur.data)
       IN  IF r.ret = "raise"
           THEN /\ cur' = [cur EXCEPT !.tree = r.tree, !.exc = "extract_source"]
                /\ pc' = "dp_finally"
                /\ UNCHANGED stats
           ELSE IF r.ret = "False"
           THEN /\ stats' = Bump(stats, "extract_failed")
                /\ cur' = [cur EXCEPT !.tree = r.tree, !.status = "extract_failed"]
                /\ pc' = "dp_finally"
           ELSE /\ cur' = [cur EXCEPT !.tree = r.tree]
                /\ pc' = "dp_locate"
                /\ UNCHANGED stats
    /\ UNCHANGED <<mode, files, pre, pandoc, roster, idx, download_metadata, tmpdirs,
                   made, ret, summary, xstats, xdata, xtree, xout, xret>>

\* download.py:183-187 and 141-142  find_main_tex_file
DP_Locate ==
    /\ UNCHANGED <<arg, res>>
    /\ mode \in {"main", "api"} /\ pc = "dp_locate"
    /\ log' = Append(log, "find_main")
    /\ \E tex_files \in Orders(TexEntries(cur.tree)) :
          LET main_tex == find_main_tex_file(tex_files)
          IN  IF main_tex = NoEntry
              THEN /\ stats' = Bump(stats, "no_main_tex")
                   /\ ReturnStatus("no_main_tex")
              ELSE /\ cur' = [cur EXCEPT !.main = main_tex]
                   /\ pc' = "dp_body"
                   /\ UNCHANGED stats
    /\ UNCHANGED <<mode, files, pre, pandoc, roster, idx, download_metadata, tmpdirs,
                   made, ret, summary, xstats, xdata, xtree, xout, xret>>

\* download.py:189-192  the flattened text of the main file
Flattened(tree, main_tex) ==
    expand_inputs(strip_comments(main_tex.content), tree,
                  SubSeq(main_tex.path, 1, Len(main_tex.path) - 1), 0)

\* download.py:191  expand_inputs raises
FlattenedRaises(tree, main_tex) ==
    expand_inputs_raises(strip_comments(main_tex.content), tree,
                         SubSeq(main_tex.path, 1, Len(main_tex.path) - 1), 0)

\* download.py:189-194 and 143-146  read, strip, expand, extract_body; an
\* exception of expand_inputs goes on to the finally clause
DP_Body ==
    /\ UNCHANGED <<arg, res>>
    /\ mode \in {"main", "api"} /\ pc = "dp_body"
    /\ log' = Append(log, "extract_body")
    /\ LET body == extract_body(Flattened(cur.tree, cur.main))
       IN  IF FlattenedRaises(cur.tree, cur.main)
           THEN /\ cur' = [cur EXCEPT !.exc = "expand_inputs"]
                /\ pc' = "dp_finally"
                /\ UNCHANGED stats
           ELSE IF body = <<>>
           THEN /\ stats' = Bump(stats, "empty_body")
                /\ cur' = [cur EXCEPT !.body = body, !.status = "empty_body"]
                /\ pc' = "dp_finally"
           ELSE /\ cur' = [cur EXCEPT !.body = body]
                /\ pc' = "dp_format"
                /\ UNCHANGED stats
    /\ UNCHANGED <<mode, files, pre, pandoc, roster, idx, download_metadata, tmpdirs,
                   made, ret, summary, xstats, xdata, xtree, xout, xret>>

\* download.py:195 and 143-146  _latex_to_markdown, then the emptiness test
DP_Format ==
    /\ UNCHANGED <<arg, res>>
    /\ mode \in {"main", "api"} /\ pc = "dp_format"
    /\ log' = Append(log, "format")
    /\ \E run \in (IF pandoc THEN PandocRuns ELSE {PandocOSError}) :
          LET body_text == latex_to_markdown(cur.body, pandoc, run)
          IN  IF body_text = <<>>
              THEN /\ stats' = Bump(stats, "empty_body")
                   /\ cur' = [cur EXCEPT !.body_text = body_text, !.status = "empty_body"]
                   /\ pc' = "dp_finally"
              ELSE /\ cur' = [cur EXCEPT !.body_text = body_text]
                   /\ pc' = "dp_write"
                   /\ UNCHANGED stats
    /\ UNCHANGED <<mode, files, pre, pandoc, roster, idx, download_metadata, tmpdirs,
                   made, ret, summary, xstats, xdata, xtree, xout, xret>>

\* download.py:148-152  txt_path.write_text, then the success counter
\* "ok": written; "enoent": the parent directory is missing, nothing written;
\* "enospc": the file was created and the write failed
DP_Write ==
    /\ UNCHANGED <<arg, res>>
    /\ mode \in {"main", "api"} /\ pc = "dp_write"
    /\ log' = Append(log, "write")
    /\ \E outcome \in (IF cur.id \in SlashIds THEN {"enoent"} ELSE {"ok", "enospc"}) :
          IF outcome = "ok"
          THEN /\ files' = WriteArtifact(files, cur.id, cur.body_text)
               /\ stats' = Bump(stats, "success")
               /\ cur' = [cur EXCEPT !.status = "success", !.size = TextLen(cur.body_text)]
          ELSE /\ files' = IF outcome = "enospc" THEN [files EXCEPT ![cur.id] = <<>>]
                           ELSE files
               /\ cur' = [cur EXCEPT !.exc = "write_text"]
               /\ UNCHANGED stats
    /\ pc' = "dp_finally"
    /\ UNCHANGED <<mode, pre, pandoc, roster, idx, download_metadata, tmpdirs,
                   made, ret, summary, xstats, xdata, xtree, xout, xret>>

\* download.py:154-155  finally: shutil.rmtree(tmp_dir), then the pending
\* return or the pending exception goes on
DP_Finally ==
    /\ UNCHANGED <<arg, res>>
    /\ mode \in {"main", "api"} /\ pc = "dp_finally"
    /\ tmpdirs' = RemoveTree(tmpdirs, cur.tmp)
    /\ IF cur.exc # None
       THEN ret' = Raised(cur.exc) /\ pc' = "dp_raised"
       ELSE ret' = Returned(create_metadata(cur.id, cur.status, cur.size)) /\ pc' = "dp_returned"
    /\ UNCHANGED <<mode, files, pre, pandoc, roster, idx, stats, download_metadata,
                   cur, made, log, summary, xstats, xdata, xtree, xout, xret>>

(***************************************************************************)
(* LaTeXMetadataExtractor.process_paper and the loop of extract_latex.main *)
(***************************************************************************)
\* extract_latex.py:278-297  parse: the two fields process_paper looks at
\* (title, authors and abstract do not influence it)
parse(content, tree, base_dir) ==
    LET flat == expand_inputs(strip_comments(content), tree, base_dir, 0)
    IN  [keywords |-> extract_keywords(flat), introduction |-> extract_introduction(flat)]

NoMetadata == [keywords |-> <<>>, introduction |-> <<None>>]

\* extract_latex.py:471-475, 387-392  the loop calls process_paper: total, mkdtemp
EnrichCall ==
    /\ UNCHANGED <<arg, res>>
    /\ mode = "enrich" /\ pc = "e_loop" /\ idx < Len(roster)
    /\ xstats' = Bump(xstats, "total")
    /\ cur' = [NoCall EXCEPT !.id = roster[idx + 1], !.tmp = made + 1]
    /\ made' = made + 1
    /\ tmpdirs' = tmpdirs \cup {made + 1}
    /\ log' = <<>>
    /\ pc' = "pp_fetch"
    /\ UNCHANGED <<mode, files, pre, pandoc, roster, idx, stats, download_metadata, ret,
                   summary, xdata, xtree, xout, xret>>

\* extract_latex.py:394-398
PP_Fetch ==
    /\ UNCHANGED <<arg, res>>
    /\ mode = "enrich" /\ pc = "pp_fetch"
    /\ log' = Append(log, "fetch")
    /\ \E resp \in Responses :
          LET data == download_source(resp)
          IN  IF data = NoData
              THEN /\ xstats' = Bump(xstats, "failed")
                   /\ cur' = [cur EXCEPT !.status = "failed"]
                   /\ pc' = "pp_finally"
              ELSE /\ cur' = [cur EXCEPT !.data = data]
                   /\ pc' = "pp_extract"
                   /\ UNCHANGED xstats
    /\ UNCHANGED <<mode, files, pre, pandoc, roster, idx, stats, download_metadata, tmpdirs,
                   made, ret, summary, xdata, xtree, xout, xret>>

\* extract_latex.py:400-404, and 433-436 when extract_source raises
PP_Extract ==
    /\ UNCHANGED <<arg, res>>
    /\ mode = "enrich" /\ pc = "pp_extract"
    /\ log' = Append(log, "extract")
    /\ LET r == ExtractSource(cur.data)
       IN  IF r.ret = "True"
           THEN /\ cur' = [cur EXCEPT !.tree = r.tree]
                /\ pc' = "pp_locate"
                /\ UNCHANGED xstats
           ELSE /\ xstats' = Bump(xstats, "failed")
                /\ cur' = [cur EXCEPT !.tree = r.tree, !.status = "failed",
                                      !.exc = IF r.ret = "raise" THEN "caught" ELSE None]
                /\ pc' = "pp_finally"
    /\ UNCHANGED <<mode, files, pre, pandoc, roster, idx, stats, download_metadata, tmpdirs,
                   made, ret, summary, xdata, xtree, xout, xret>>

\* extract_latex.py:406-410
PP_Locate ==
    /\ UNCHANGED <<arg, res>>
    /\ mode = "enrich" /\ pc = "pp_locate"
    /\ log' = Append(log, "find_main")
    /\ \E tex_files \in Orders(TexEntries(cur.tree)) :
          LET main_tex == find_main_tex_file(tex_files)
          IN  IF main_tex = NoEntry
              THEN /\ xstats' = Bump(xstats, "failed")
                   /\ cur' = [cur EXCEPT !.status = "failed"]
                   /\ pc' = "pp_finally"
              ELSE /\ cur' = [cur EXCEPT !.main = main_tex]
                   /\ pc' = "pp_parse"
                   /\ UNCHANGED xstats
    /\ UNCHANGED <<mode, files, pre, pandoc, roster, idx, stats, download_metadata, tmpdirs,
                   made, ret, summary, xdata, xtree, xout, xret>>

\* extract_latex.py:412-431, and 433-436 when expand_inputs raises
PP_Parse ==
    /\ UNCHANGED <<arg, res>>
    /\ mode = "enrich" /\ pc = "pp_parse"
    /\ log' = Append(log, "parse")
    /\ LET metadata == parse(cur.main.content, cur.tree,
                             SubSeq(cur.main.path, 1, Len(cur.main.path) - 1))
           has_content == metadata.keywords # <<>> \/ metadata.introduction # <<>>
       IN  IF FlattenedRaises(cur.tree, cur.main)
           THEN /\ xstats' = Bump(xstats, "failed")
                /\ cur' = [cur EXCEPT !.status = "failed", !.exc = "caught"]
           ELSE /\ xstats' = Bump(xstats, IF has_content THEN "success" ELSE "skipped")
                /\ cur' = [cur EXCEPT !.status = IF has_content THEN "success" ELSE "skipped",
                                      !.body = metadata.introduction]
    /\ pc' = "pp_finally"
    /\ UNCHANGED <<mode, files, pre, pandoc, roster, idx, stats, download_metadata, tmpdirs,
                   made, ret, summary, xdata, xtree, xout, xret>>

\* extract_latex.py:437-438  finally: shutil.rmtree(tmp_dir); the call returns
\* the metadata, or None
PP_Finally ==
    /\ UNCHANGED <<arg, res>>
    /\ mode = "enrich" /\ pc = "pp_finally"
    /\ tmpdirs' = RemoveTree(tmpdirs, cur.tmp)
    /\ ret' = IF cur.status = "failed" THEN Returned(NoMetadata)
              ELSE Returned(parse(cur.main.content, cur.tree,
                                  SubSeq(cur.main.path, 1, Len(cur.main.path) - 1)))
    /\ pc' = "pp_returned"
    /\ UNCHANGED <<mode, files, pre, pandoc, roster, idx, stats, download_metadata,
                   cur, made, log, summary, xstats, xdata, xtree, xout, xret>>

\* extract_latex.py:476-477  back in the loop of main
EnrichResume ==
    /\ UNCHANGED <<arg, res>>
    /\ mode = "enrich" /\ pc = "pp_returned"
    /\ idx' = idx + 1
    /\ pc' = "e_loop"
    /\ cur' = NoCall /\ log' = <<>> /\ ret' = NoReturn
    /\ UNCHANGED <<mode, files, pre, pandoc, roster, stats, download_metadata,
                   tmpdirs, made, summary, xstats, xdata, xtree, xout, xret>>

IdleExtract == xdata = Binary /\ xtree = EmptyTree /\ xout = {} /\ xret = "none"

\* no parser function is called on its own
NoArg == [fn |-> None]
NoResult == [kind |-> None]
IdleParser == arg = NoArg /\ res = NoResult

(***************************************************************************)
(* download.main, and callers that use a LaTeXDownloader directly          *)
(***************************************************************************)
\* download.py:258-270  an empty roster exits; otherwise the stale .txt files
\* of output_dir are unlinked and the downloader is constructed
MainStart ==
    /\ UNCHANGED <<arg, res>>
    /\ mode = "main" /\ pc = "m_start"
    /\ IF roster = <<>>
       THEN pc' = "m_exit0" /\ UNCHANGED files
       ELSE pc' = "m_loop" /\ files' = [id \in FlatIds |-> NoFile]
    /\ UNCHANGED <<mode, pre, pandoc, roster, idx, stats, download_metadata, cur,
                   tmpdirs, made, log, ret, summary, xstats, xdata, xtree, xout, xret>>

\* download.py:272-279  the loop calls download_paper for the next paper
MainCall ==
    /\ UNCHANGED <<arg, res>>
    /\ mode = "main" /\ pc = "m_loop" /\ idx < Len(roster)
    /\ DP_Begin(roster[idx + 1])
    /\ UNCHANGED idx

\* download.py:280  download_metadata.append(metadata)
MainAppend ==
    /\ UNCHANGED <<arg, res>>
    /\ mode = "main" /\ pc = "dp_returned"
    /\ download_metadata' = Append(download_metadata, ret.record)
    /\ idx' = idx + 1
    /\ pc' = "m_loop"
    /\ cur' = NoCall /\ log' = <<>> /\ ret' = NoReturn     \* the call's frame is gone
    /\ UNCHANGED <<mode, files, pre, pandoc, roster, stats, tmpdirs, made,
                   summary, xstats, xdata, xtree, xout, xret>>

\* an exception leaving download_paper leaves the loop and main: the run ends
\* with a traceback, before save_metadata
MainCrash ==
    /\ UNCHANGED <<arg, res>>
    /\ mode = "main" /\ pc = "dp_raised"
    /\ pc' = "m_crashed"
    /\ UNCHANGED <<mode, files, pre, pandoc, roster, idx, stats, download_metadata, cur,
                   tmpdirs, made, log, ret, summary, xstats, xdata, xtree, xout, xret>>

\* download.py:282-284  save_metadata, print_summary
MainSave ==
    /\ UNCHANGED <<arg, res>>
    /\ mode = "main" /\ pc = "m_loop" /\ idx = Len(roster)
    /\ summary' = summary + 1
    /\ pc' = "m_done"
    /\ UNCHANGED <<mode, files, pre, pandoc, roster, idx, stats, download_metadata, cur,
                   tmpdirs, made, log, ret, xstats, xdata, xtree, xout, xret>>

\* a caller holding a LaTeXDownloader calls download_paper (as the tests do)
ApiCall ==
    /\ UNCHANGED <<arg, res>>
    /\ mode = "api" /\ pc = "idle" /\ idx < MaxRoster
    /\ \E id \in Ids : DP_Begin(id)
    /\ UNCHANGED idx

\* that caller gets the record, or catches the exception, and goes on
ApiResume ==
    /\ UNCHANGED <<arg, res>>
    /\ mode = "api" /\ pc \in {"dp_returned", "dp_raised"}
    /\ idx' = idx + 1
    /\ pc' = "idle"
    /\ cur' = NoCall /\ log' = <<>> /\ ret' = NoReturn     \* the call's frame is gone
    /\ UNCHANGED <<mode, files, pre, pandoc, roster, stats, download_metadata,
                   tmpdirs, made, summary, xstats, xdata, xtree, xout, xret>>

\* the rosters of a run; the new-style identifiers are alike, so of the
\* rosters that differ by exchanging them only one is taken
Rosters ==
    {r \in SeqsOf(Ids, 0, MaxRoster) :
        \A i \in 1..Len(r) : r[i] = "2602.00002" => \E j \in 1..(i - 1) : r[j] = "2602.00001"}

Init ==
    /\ mode \in {"main", "api", "enrich"}
    /\ pc = IF mode = "main" THEN "m_start" ELSE IF mode = "api" THEN "idle" ELSE "e_loop"
    /\ files \in (IF mode = "enrich" THEN {[id \in FlatIds |-> NoFile]}
                  ELSE IF mode = "main"         \* main removes them all at its start
                  THEN {[id \in FlatIds |-> NoFile], [id \in FlatIds |-> OldText]}
                  ELSE [FlatIds -> {NoFile, OldText}])
    /\ pre = files
    /\ pandoc \in (IF mode = "enrich" THEN {FALSE} ELSE BOOLEAN)
    /\ roster \in (IF mode = "api" THEN {<<>>} ELSE Rosters)
    /\ idx = 0
    /\ stats = NoStats /\ download_metadata = <<>> /\ cur = NoCall
    /\ tmpdirs = {} /\ made = 0 /\ log = <<>> /\ ret = NoReturn
    /\ summary = 0 /\ xstats = NoXStats
    /\ IdleExtract /\ IdleParser

Next ==
    \/ MainStart \/ MainCall \/ MainAppend \/ MainCrash \/ MainSave
    \/ ApiCall \/ ApiResume
    \/ DP_Fetch \/ DP_Extract \/ DP_Locate \/ DP_Body \/ DP_Format \/ DP_Write
    \/ DP_Finally
    \/ EnrichCall \/ PP_Fetch \/ PP_Extract \/ PP_Locate \/ PP_Parse \/ PP_Finally
    \/ EnrichResume

Spec == Init /\ [][Next]_vars


(***************************************************************************)
(* Properties of LaTeXDownloader and download.main                         *)
(***************************************************************************)
\* a download_paper call has ended with a record
Ended == pc = "dp_returned"
\* no download_paper call is running
BetweenCalls == pc \in {"idle", "m_loop", "m_done", "m_crashed", "dp_returned", "dp_raised"}

StepOrder == <<"exists", "fetch", "extract", "find_main", "extract_body", "format", "write">>

\* the running download_paper call found its artifact file on entry
HadArtifact == mode # "enrich" /\ cur.id \in FlatIds /\ cur.files0[cur.id] # NoFile

\* C1: download_paper for an identifier whose artifact file already exists
\* returns a record with status 'skipped', increments only the total and
\* skipped counters, and leaves the existing file unchanged.
C1_SkipExisting ==
    (cur.id # None /\ HadArtifact) =>
        /\ pc = "dp_returned"
        /\ ret = Returned(create_metadata(cur.id, "skipped", 0))
        /\ stats = [cur.stats0 EXCEPT !.total = @ + 1, !.skipped = @ + 1]
        /\ files = cur.files0

\* a second call in a row met the artifact written or left by the first
C1_Witness ==
    /\ Ended /\ HadArtifact
    /\ cur.stats0.total >= 1
    /\ ret.record.status = "skipped"

\* C2 (as stated): over a whole run of main, an artifact that existed before
\* the run for a roster identifier is never overwritten or removed, and that
\* paper ends as 'skipped'.
C2_PreRunArtifactKept ==
    mode = "main" =>
        \A i \in 1..Len(roster) :
            (roster[i] \in FlatIds /\ pre[roster[i]] # NoFile) =>
                /\ files[roster[i]] = pre[roster[i]]
                /\ i <= Len(download_metadata) => download_metadata[i].status = "skipped"

\* C2 (amended): main first unlinks every artifact of the output directory,
\* so a paper is skipped only when an earlier paper of the same run with the
\* same identifier succeeded; an artifact that exists during the run is
\* never overwritten or removed by the rest of the run.
C2_RunArtifactKept ==
    /\ [](mode = "main" =>
            \A i \in 1..Len(download_metadata) :
                download_metadata[i].status = "skipped" =>
                    \E j \in 1..(i - 1) :
                        /\ download_metadata[j].arxiv_id = download_metadata[i].arxiv_id
                        /\ download_metadata[j].status = "success")
    /\ [][(mode = "main" /\ pc # "m_start") =>
            \A id \in FlatIds : files[id] # NoFile => files'[id] = files[id]]_vars

\* a run whose roster names an identifier twice, with an artifact before the
\* run, has ended: the second occurrence was skipped
C2_Witness ==
    /\ mode = "main" /\ pc = "m_done"
    /\ \E i \in 1..Len(download_metadata) :
          /\ download_metadata[i].status = "skipped"
          /\ pre[roster[i]] # NoFile
          /\ files[roster[i]] # pre[roster[i]]

\* C4 (as stated): no exception escapes download_paper, and the run loop of
\* main goes on to the next paper.
C4_NoExceptionEscapes == pc \notin {"dp_raised", "m_crashed"}

NoCallRunning == BetweenCalls \/ pc \in {"m_start", "m_exit0", "e_loop", "pp_returned"}

\* C7: every temporary directory created while processing a paper, by
\* download_paper and by process_paper, has been removed when the call ends,
\* on every exit path (each return, and an exception raised by a step).
C7_TempDirsRemoved ==
    /\ NoCallRunning => tmpdirs = {}
    /\ tmpdirs \subseteq {cur.tmp}

\* a step of download_paper raised, after its temporary directory was made
C7_Witness ==
    /\ pc = "dp_raised" /\ ret.from = "write_text"
    /\ cur.tmp >= 1 /\ cur.tmp \notin tmpdirs

OutcomeSum(st) == st.success + st.skipped + st.no_source + st.extract_failed
                    + st.no_main_tex + st.empty_body

\* C6 (as stated): every call has incremented total and exactly one outcome
\* counter, so total is the sum of the six outcome counters between calls.
C6_TotalIsSumOfOutcomes ==
    BetweenCalls => stats.total = OutcomeSum(stats)

\* C8: for an identifier with no artifact before the call, the artifact file
\* exists after download_paper if and only if the outcome is success.
C8_ArtifactIffSuccess ==
    (Ended /\ ~HadArtifact) =>
        ((cur.id \in FlatIds /\ files[cur.id] # NoFile) <=> ret.record.status = "success")

\* both sides happen: a success with its file, a failure without one
C8_Witness ==
    /\ Ended /\ ~HadArtifact
    /\ ret.record.status = "success"
    /\ files[cur.id] = cur.body_text
    /\ stats.empty_body >= 1

FormatterOutputs(body) ==
    IF pandoc THEN {latex_to_markdown(body, TRUE, r) : r \in PandocRuns}
    ELSE {clean_latex(body)}

IsPrefixOf(s, t) == Len(s) <= Len(t) /\ SubSeq(t, 1, Len(s)) = s

\* C10 (as stated): the steps run in the fixed order, the call stops at the
\* first failing step with that step's outcome, and every call ends in exactly
\* one of the six outcomes.
C10_StepOrder ==
    /\ (cur.id # None) => IsPrefixOf(log, StepOrder)
    /\ pc = "dp_raised" => FALSE
    /\ Ended =>
          /\ ret.record.status \in Statuses
          /\ ret.record.status = "skipped" <=> log = SubSeq(StepOrder, 1, 1)
          /\ ret.record.status = "no_source" <=> log = SubSeq(StepOrder, 1, 2)
          /\ ret.record.status = "extract_failed" <=> log = SubSeq(StepOrder, 1, 3)
          /\ ret.record.status = "no_main_tex" <=> log = SubSeq(StepOrder, 1, 4)
          /\ ret.record.status = "empty_body" <=> Len(log) \in {5, 6}
          /\ ret.record.status = "success" <=> log = StepOrder

(***************************************************************************)
(* Specification of extract_source on crafted archives                     *)
(***************************************************************************)
NameAtoms == {"/", ".", "a"}
TarNames == SeqsOf(NameAtoms, 1, MaxNameAtoms)
TarMember(name) == [name |-> name, content |-> <<"x">>]

\* the lists of k member names that have at most budget atoms together
RECURSIVE NameListsOf(_, _)
NameListsOf(k, budget) ==
    IF k = 0 THEN {<<>>}
    ELSE UNION {{<<n>> \o rest : rest \in NameListsOf(k - 1, budget - Len(n))} :
                   n \in SeqsOf(NameAtoms, 1, budget - (k - 1))}

CraftedTars ==
    {TarGz([i \in 1..Len(ns) |-> TarMember(ns[i])]) :
        ns \in UNION {NameListsOf(k, MaxNameAtoms) : k \in 0..MaxMembers}}



\* the variables an entry point does not use
IdleDownload ==
    /\ files = <<>> /\ pre = <<>> /\ pandoc = FALSE /\ roster = <<>> /\ idx = 0
    /\ stats = NoStats /\ download_metadata = <<>> /\ cur = NoCall
    /\ tmpdirs = {} /\ made = 0 /\ log = <<>> /\ ret = NoReturn
    /\ summary = 0 /\ xstats = NoXStats


\* bytes that are no tar archive: gzip streams, whole and cut short, of a
\* document and of other text, plain text with and without a marker, and
\* bytes that are not UTF-8
SingleFiles ==
    {Gzip(DocOf(<<"x">>), TRUE), Gzip(<<"x">>, TRUE), Gzip(DocOf(<<"x">>), FALSE),
     PlainText(DocOf(<<"x">>)), PlainText(DocClassLine), PlainText(BeginDocMark),
     PlainText(<<"x">>), Binary}

InitTar ==
    /\ mode = "tar" /\ pc = "extract_source"
    /\ IdleDownload
    /\ xdata \in CraftedTars \cup SingleFiles
    /\ xtree = EmptyTree /\ xout = {} /\ xret = "none"
    /\ IdleParser

\* extract_source(data, extract_dir) on a fresh extract_dir
ExtractSourceCall ==
    /\ UNCHANGED <<arg, res>>
    /\ mode = "tar" /\ pc = "extract_source"
    /\ LET r == ExtractSource(xdata)
       IN  xtree' = r.tree /\ xout' = r.out /\ xret' = r.ret
    /\ pc' = "done"
    /\ UNCHANGED <<mode, files, pre, pandoc, roster, idx, stats, download_metadata,
                   cur, tmpdirs, made, log, ret, summary, xstats, xdata>>

NextTar == ExtractSourceCall

SpecTar == InitTar /\ [][NextTar]_vars

\* C3: whatever the member names of a tar archive, extract_source creates no
\* file whose resolved path lies outside extract_dir.
C3_NoEscape == xout = {}

HasUnsafeMember(data) == \E i \in 1..Len(data.members) : Escapes(data.members[i].name)

\* an archive with an escaping member and an ordinary one has been extracted
C3_Witness ==
    /\ pc = "done" /\ xret = "True"
    /\ HasUnsafeMember(xdata)
    /\ FilesOf(xtree) # {}

\* C11 (as stated): whenever extract_source returns true, extract_dir holds
\* at least one extracted file, and whenever it holds no file the call
\* returns false; also for a tar archive that is empty or whose members are
\* all rejected by the traversal filter.
C11_TrueMeansFile ==
    pc = "done" =>
        /\ xret = "True" => FilesOf(xtree) # {}
        /\ FilesOf(xtree) = {} => xret = "False"

(***************************************************************************)
(* Specification of the LaTeXParser functions called on their own          *)
(***************************************************************************)
\* the concatenation of a list of texts
RECURSIVE Flatten(_)
Flatten(pieces) == IF pieces = <<>> THEN <<>> ELSE Head(pieces) \o Flatten(Tail(pieces))

\* the texts made of at most n pieces
TextsOf(pieces, n) == {Flatten(ps) : ps \in SeqsOf(pieces, 0, n)}

Directive(cmd, filename) == <<"\\", cmd, "{">> \o filename \o <<"}">>
TexName(stem) == <<stem, ".", "tex">>

\* a file name one byte longer than the file system takes
LongName == <<Rep("x", NAME_MAX + 1)>>

\* pieces of the text given to expand_inputs: plain text, directives for the
\* files a.tex and b.tex, for a missing file, for a directory, for a name
\* that is too long, and a directive with nothing between the braces
ExpandPieces ==
    {<<"x">>, Directive("input", <<"a">>), Directive("include", <<"b">>),
     Directive("input", TexName("a")), Directive("input", <<"y">>),
     Directive("include", <<"sec">>), Directive("input", LongName),
     <<"\\", "input", "{", "}">>}

\* base_dir: a directory sec, and the files a.tex and b.tex when they exist;
\* a.tex may include itself, and a.tex and b.tex may include each other
ExpandTrees ==
    {{DirEntry(<<<<"sec">>>>)}
        \cup {FileEntry(<<TexName("a")>>, ca) : ca \in A}
        \cup {FileEntry(<<TexName("b")>>, cb) : cb \in B} :
     A \in {{}, {<<"x">>}, {<<"x">> \o Directive("input", <<"a">>)},
            {<<"x">> \o Directive("input", <<"b">>)}},
     B \in {{}, {<<"y">>}, {<<"y">> \o Directive("include", <<"a">>)},
            {Directive("input", <<"y">>)}}}

ExpandArgs ==
    {[fn |-> "expand_inputs", content |-> c, tree |-> t] :
        c \in TextsOf(ExpandPieces, MaxPieces), t \in ExpandTrees}

\* file names that lead out of base_dir, and one that uses a parent step
\* and stays inside
AbsoluteName == <<"/", "etc", "/", "hostname">>
ParentName == <<".", ".", "/", "s">>
InsideParentName == <<"sec", "/", ".", ".", "/", "a">>

OutsidePieces ==
    {<<"x">>, Directive("input", <<"a">>), Directive("input", AbsoluteName),
     Directive("include", ParentName), Directive("input", InsideParentName)}

\* what the file system holds outside base_dir: a file s.tex next to
\* base_dir, and the file /etc/hostname
BesideBase == {DirEntry(<<DotDot>>), FileEntry(<<DotDot, TexName("s")>>, <<"secret">>)}
UnderRoot ==
    {DirEntry(<<Root>>), DirEntry(<<Root, <<"etc">>>>),
     FileEntry(<<Root, <<"etc">>, <<"hostname">>>>, <<"host">>)}
OutsideText == {"secret", "host"}

\* base_dir: a directory sec and a file a.tex, which may include the file
\* next to base_dir; around it, the files outside or none of them
OutsideTrees ==
    {{DirEntry(<<<<"sec">>>>), FileEntry(<<TexName("a")>>, ca)} \cup out :
        ca \in {<<"x">>, <<"x">> \o Directive("input", ParentName)},
        out \in {{}, BesideBase, UnderRoot, BesideBase \cup UnderRoot}}

OutsideArgs ==
    {[fn |-> "expand_inputs", content |-> c, tree |-> t] :
        c \in TextsOf(OutsidePieces, MaxPieces), t \in OutsideTrees}

\* the variables a parser function leaves alone
ParserFrame ==
    UNCHANGED <<mode, files, pre, pandoc, roster, idx, stats, download_metadata,
                cur, tmpdirs, made, log, ret, summary, xstats,
                xdata, xtree, xout, xret, arg>>

\* LaTeXParser.expand_inputs(content, base_dir)
ExpandInputsCall ==
    /\ mode = "parser" /\ pc = "expand_inputs"
    /\ LET r == Expansion(arg.content, arg.tree, <<>>, 0)
       IN  res' = IF r.raised THEN [kind |-> "raise", text |-> <<>>,
                                    deepest |-> r.deepest, capped |-> r.capped]
                  ELSE [kind |-> "return", text |-> r.text,
                        deepest |-> r.deepest, capped |-> r.capped]
    /\ pc' = "done"
    /\ ParserFrame

\* texts of braces, backslashes and a letter, and every index into them,
\* the one past the end included
BraceArgs ==
    {[fn |-> "extract_braced_content", content |-> c, start_pos |-> p] :
        c \in SeqsOf({"{", "}", "\\", "x"}, 0, MaxBraceLen), p \in 0..(MaxBraceLen + 1)}

\* LaTeXParser.extract_braced_content(content, start_pos)
ExtractBracedContentCall ==
    /\ mode = "parser" /\ pc = "extract_braced_content"
    /\ res' = [kind |-> "return", text |-> extract_braced_content(arg.content, arg.start_pos)]
    /\ pc' = "done"
    /\ ParserFrame

\* pieces of the text given to extract_body: text, white space, the six
\* kinds of boundary, a section that is no appendix, a heading whose title
\* goes on after the word appendix, and a second \begin{document}
BodyPieces ==
    {<<"x">>, <<" ">>, BeginDocMark, EndDocMark,
     <<"\\", "appendix">>, <<"\\", "begin", "{", "appendix", "}">>,
     <<"\\", "Section", "{", "Appendix", "}">>,
     <<"\\", "section", "*", "{", "appendices", " ", "x", "}">>,
     <<"\\", "section", "{", "x", "}">>,
     <<"\\", "section", "{", "appendix", ":", "}">>,
     <<"\\", "bibliography", "{">>, <<"\\", "bibliographystyle", "{">>}

\* how the text given to extract_body starts
BodyHeads == {<<>>, <<"x">> \o BeginDocMark, <<"x">> \o BeginDocMark \o <<" ", "x">>}

BodyArgs ==
    {[fn |-> "extract_body", content |-> h \o t] :
        h \in BodyHeads, t \in TextsOf(BodyPieces, MaxBodyPieces)}

\* download.extract_body(content)
ExtractBodyCall ==
    /\ mode = "parser" /\ pc = "extract_body"
    /\ res' = [kind |-> "return", text |-> extract_body(arg.content)]
    /\ pc' = "done"
    /\ ParserFrame

\* names of .tex files: the conventional ones and two others
TexFileNames ==
    {COMMON_NAMES[k] : k \in 1..Len(COMMON_NAMES)} \cup {TexName("manuscript"), TexName("big")}

\* contents of .tex files: one without \documentclass, and four with it, of
\* 14, 16, 16 and 17 characters and of 14, 16, 18 and 17 bytes
TexFileContents ==
    {<<"x", "x", "x", "x", "x">>, DocClassMark, DocClassMark \o <<"x", "x">>,
     DocClassMark \o <<NonAsciiLetter, NonAsciiLetter>>, DocClassMark \o <<"x", "x", "x">>}

\* what rglob("*.tex") may return: files of distinct names, in any order
TexFileLists ==
    {fs \in SeqsOf({FileEntry(<<n>>, c) : n \in TexFileNames, c \in TexFileContents}, 0, MaxFiles) :
        \A i, j \in 1..Len(fs) : i # j => fs[i].path # fs[j].path}

FindMainArgs == {[fn |-> "find_main_tex_file", tex_files |-> fs] : fs \in TexFileLists}

\* LaTeXParser.find_main_tex_file(tex_dir)
FindMainTexFileCall ==
    /\ mode = "parser" /\ pc = "find_main_tex_file"
    /\ res' = [kind |-> "return", entry |-> find_main_tex_file(arg.tex_files)]
    /\ pc' = "done"
    /\ ParserFrame

MarkdownArgs ==
    {[fn |-> "_latex_to_markdown", body |-> b, have_pandoc |-> h, run |-> r] :
        b \in DlBodies, h \in BOOLEAN, r \in PandocRuns \cup FailedPandocRuns}

\* download._latex_to_markdown(body)
LatexToMarkdownCall ==
    /\ mode = "parser" /\ pc = "_latex_to_markdown"
    /\ res' = [kind |-> "return", text |-> latex_to_markdown(arg.body, arg.have_pandoc, arg.run)]
    /\ pc' = "done"
    /\ ParserFrame

\* what an introduction is made of: a letter, a space, a letter outside
\* ASCII, a command, and words just below and just above the cap in length
IntroAtoms ==
    {"x", " ", NonAsciiLetter, Rep("x", INTRO_LIMIT - 2), Rep("x", INTRO_LIMIT + 1)}

IntroHeading == <<"\\", "section", "{", "Introduction", "}">>

\* a text with or without an introduction heading, the introduction, and
\* the end of the text or the next section
IntroArgs ==
    {[fn |-> "extract_introduction", heading |-> h, intro |-> t, rest |-> r,
      content |-> <<"x">> \o h \o t \o r] :
        h \in {<<>>, IntroHeading}, t \in SeqsOf(IntroAtoms, 0, MaxIntroAtoms),
        r \in {<<>>, <<"\\", "section", "{", "x", "}", "x">>}}

\* section headings with a title in several cases, with and without a numeral
IntroTitles == {"Introduction", "introduction", "INTRODUCTION", "Background"}
IntroPrefixes == {<<>>, <<"1">>, <<"1", ".">>, <<"1", ".", " ">>, <<"1", " ">>}
SectionHeading(prefix, title) == <<"\\", "section", "{">> \o prefix \o <<title, "}">>

IntroTitleArgs ==
    {[fn |-> "extract_introduction", heading |-> SectionHeading(p, ti), intro |-> t, rest |-> r,
      content |-> <<"x">> \o SectionHeading(p, ti) \o t \o r] :
        p \in IntroPrefixes, ti \in IntroTitles, t \in {<<>>, <<"x">>},
        r \in {<<>>, <<"\\", "section", "{", "x", "}", "x">>}}

\* LaTeXParser.extract_introduction(content)
ExtractIntroductionCall ==
    /\ mode = "parser" /\ pc = "extract_introduction"
    /\ res' = [kind |-> "return", text |-> extract_introduction(arg.content)]
    /\ pc' = "done"
    /\ ParserFrame

\* pieces of the main file given to parse: text, a comment, an escaped
\* percent sign, an inclusion of a.tex, a commented-out inclusion, and the
\* heading of the introduction
ParsePieces ==
    {<<"x">>, <<"%", "y", "\n">>, <<"\\", "%">>, Directive("input", <<"a">>),
     <<"%">> \o Directive("input", <<"a">>) \o <<"\n">>, IntroHeading}

\* what a.tex holds: text, text with a comment, a commented-out \appendix,
\* an escaped percent sign
IncludedTexts ==
    {<<"x">>, <<"x", "%", "y", "\n">>, <<"%", "\\", "appendix", "\n", "x">>,
     <<"\\", "%", "x">>}

ParseArgs ==
    {[fn |-> "parse", content |-> c, tree |-> {FileEntry(<<TexName("a")>>, t)}] :
        c \in TextsOf(ParsePieces, MaxPieces), t \in IncludedTexts}

\* LaTeXParser.parse(content, base_dir): the flattened text, and the fields
ParseCall ==
    /\ mode = "parser" /\ pc = "parse"
    /\ res' = [kind |-> "return",
               flat |-> expand_inputs(strip_comments(arg.content), arg.tree, <<>>, 0),
               metadata |-> parse(arg.content, arg.tree, <<>>)]
    /\ pc' = "done"
    /\ ParserFrame

\* the texts given to strip_comments: percent signs, backslashes, line
\* breaks and other text
StripAtoms == {"%", "\\", "x", "\n"}
StripArgs == {[fn |-> "strip_comments", content |-> c] : c \in SeqsOf(StripAtoms, 0, MaxStripLen)}

StripCommentsCall ==
    /\ mode = "parser" /\ pc = "strip_comments"
    /\ res' = [kind |-> "return", text |-> strip_comments(arg.content)]
    /\ pc' = "done"
    /\ ParserFrame

\* keyword lists: terms (empty, plain, padded, formatted) between commas,
\* semicolons and \sep
KwTerms == {<<>>, <<"a">>, <<" ", "b", " ">>, <<"\\", "emph", "{", "c", "}">>}
KwSeparators == {<<",">>, <<";">>, <<"\\", "sep", " ">>}
RECURSIVE KwLists(_)
KwLists(n) ==
    IF n = 1 THEN KwTerms
    ELSE KwLists(n - 1) \cup
         {l \o s \o t : l \in KwLists(n - 1), s \in KwSeparators, t \in KwTerms}

KeywordsCmd(raw) == <<"\\", "keywords", "{">> \o raw \o <<"}">>
Environment(env, raw) ==
    <<"\\", "begin", "{", env, "}">> \o raw \o <<"\\", "end", "{", env, "}">>

\* a text with the keyword list in one of the three places and, where
\* there is a later place in the order, another list in that place
KeywordsArgs ==
    {[fn |-> "extract_keywords", cmd |-> <<>>, env |-> <<>>, ieee |-> <<>>,
      content |-> <<"x">>]}
    \cup {[fn |-> "extract_keywords", cmd |-> r, env |-> <<"z">>, ieee |-> <<>>,
           content |-> Environment("keywords", <<"z">>) \o KeywordsCmd(r)] :
             r \in KwLists(MaxTerms)}
    \cup {[fn |-> "extract_keywords", cmd |-> <<>>, env |-> r, ieee |-> <<"z">>,
           content |-> Environment("IEEEkeywords", <<"z">>) \o Environment("keywords", r)] :
             r \in KwLists(MaxTerms)}
    \cup {[fn |-> "extract_keywords", cmd |-> <<>>, env |-> <<>>, ieee |-> r,
           content |-> <<"x">> \o Environment("IEEEkeywords", r)] :
             r \in KwLists(MaxTerms)}

ExtractKeywordsCall ==
    /\ mode = "parser" /\ pc = "extract_keywords"
    /\ res' = [kind |-> "return", keywords |-> extract_keywords(arg.content)]
    /\ pc' = "done"
    /\ ParserFrame

InitParser ==
    /\ mode = "parser"
    /\ IdleDownload /\ IdleExtract
    /\ \/ arg \in ExpandArgs
       \/ arg \in OutsideArgs
       \/ arg \in BraceArgs
       \/ arg \in BodyArgs
       \/ arg \in FindMainArgs
       \/ arg \in MarkdownArgs
       \/ arg \in ParseArgs
       \/ arg \in StripArgs
       \/ arg \in KeywordsArgs
       \/ arg \in IntroArgs
       \/ arg \in IntroTitleArgs
    /\ pc = arg.fn
    /\ res = NoResult

NextParser == ExpandInputsCall \/ ExtractBracedContentCall \/ ExtractBodyCall \/ FindMainTexFileCall \/ LatexToMarkdownCall \/ ExtractIntroductionCall \/ ParseCall \/ StripCommentsCall \/ ExtractKeywordsCall

SpecParser == InitParser /\ [][NextParser]_vars

\* expand_inputs(content, base_dir) has returned
ExpandReturned == pc = "done" /\ arg.fn = "expand_inputs" /\ res.kind = "return"

\* the text holds a directive that names a file of the tree, as given or
\* with .tex appended
HasResolvable(text, tree) ==
    \E i \in 1..Len(text) :
        LET j == InputDirectiveEnd(text, i)
        IN  /\ j # 0
            /\ \/ Candidate(tree, <<>>, SubSeq(text, i + 3, j - 1)) # NoLoc
               \/ Candidate(tree, <<>>, SubSeq(text, i + 3, j - 1) \o <<".", "tex">>) # NoLoc

\* C12: expand_inputs terminates on every tree, cyclic inclusions included:
\* no call deeper than the cap of 10 expands a directive, and the directives
\* met beyond the cap stay verbatim in the returned text (they are the only
\* resolvable directives left in it).
C12_ExpansionCapped ==
    ExpandReturned =>
        /\ res.deepest <= MaxDepth
        /\ res.capped <=> HasResolvable(res.text, arg.tree)
        /\ expand_inputs(arg.content, arg.tree, <<>>, MaxDepth + 1) = arg.content

\* a.tex includes itself and the text includes a.tex: the cap was reached
C12_Witness ==
    /\ ExpandReturned /\ res.capped /\ res.deepest = MaxDepth
    /\ HasResolvable(arg.content, arg.tree)
    /\ Len(res.text) > MaxDepth

\* C13 (as stated): expand_inputs returns a text without directive
\* unchanged, and leaves every directive whose file resolves neither as
\* given nor with .tex appended verbatim, without raising.
C13_UnresolvableVerbatim ==
    (pc = "done" /\ arg.fn = "expand_inputs" /\ ~HasResolvable(arg.content, arg.tree)) =>
        /\ res.kind = "return"
        /\ res.text = arg.content

\* the brace at the 0-based position i is not preceded by a backslash
Unescaped(content, i) == i = 0 \/ content[i] # "\\"

\* the nesting depth after the positions a..b: unescaped opening braces
\* less unescaped closing braces
DepthOver(content, a, b) ==
    Cardinality({k \in a..b : content[k + 1] = "{" /\ Unescaped(content, k)})
        - Cardinality({k \in a..b : content[k + 1] = "}" /\ Unescaped(content, k)})

\* the unescaped closing braces that bring the depth counted from start_pos
\* back to zero
Closers(content, start_pos) ==
    {i \in start_pos..(Len(content) - 1) :
        /\ content[i + 1] = "}" /\ Unescaped(content, i)
        /\ DepthOver(content, start_pos, i) = 0}

\* C14: extract_braced_content returns the text strictly between the brace
\* at start_pos and its matching closing brace, the first unescaped closing
\* brace at which the depth counted over unescaped braces is back to zero;
\* it returns the empty string when start_pos is past the end, does not
\* point at an opening brace, or no matching brace exists.
C14_BracedContent ==
    (pc = "done" /\ arg.fn = "extract_braced_content") =>
        LET c == arg.content
            p == arg.start_pos
        IN  IF p < Len(c) /\ c[p + 1] = "{" /\ Closers(c, p) # {}
            THEN res.text = SubSeq(c, p + 2, Least(Closers(c, p)))
            ELSE res.text = <<>>

\* a nested group and an escaped closing brace inside the returned text
C14_Witness ==
    /\ pc = "done" /\ arg.fn = "extract_braced_content"
    /\ \E k \in 2..Len(res.text) : res.text[k] = "}" /\ res.text[k - 1] = "\\"
    /\ Len(res.text) = Len(arg.content) - 2

\* the boundaries that are a fixed text, in lower case
BoundaryMarks ==
    {<<"\\", "begin", "{", "appendix", "}">>, <<"\\", "bibliography", "{">>,
     <<"\\", "bibliographystyle", "{">>, EndDocMark}
        \cup {<<"\\", "section">> \o star \o <<"{", title, after>> :
                star \in {<<>>, <<"*">>}, title \in {"appendix", "appendices"},
                after \in {" ", "\n", "}", "["}}

\* a boundary starts at position i of the text, given in lower case: a fixed
\* one, or the command \appendix as a whole word
BoundaryAt(low, i) ==
    /\ low[i] = "\\"
    /\ \/ \E m \in BoundaryMarks : MatchAt(low, m, i)
       \/ MatchAt(low, <<"\\", "appendix">>, i) /\ ~IsWordChar(At(low, i + 2))

\* the first position after the first \begin{document}
BodyStart(content) == Find(content, BeginDocMark) + Len(BeginDocMark)

\* C15: for a text that contains \begin{document}, extract_body returns the
\* trimmed text from just after the first \begin{document} up to, and
\* excluding, the earliest boundary of any kind, or up to the end of the
\* text when there is no boundary.
C15_BodyEndsAtEarliestBoundary ==
    (pc = "done" /\ arg.fn = "extract_body" /\ Contains(arg.content, BeginDocMark)) =>
        LET c == arg.content
            low == LowerAll(c)
            bounds == {i \in BodyStart(c)..Len(c) : BoundaryAt(low, i)}
            stop == IF bounds = {} THEN Len(c) + 1 ELSE Least(bounds)
        IN  res.text = Strip(SubSeq(c, BodyStart(c), stop - 1))

\* \appendix and a later \bibliography: the body ends at \appendix
C15_Witness ==
    /\ pc = "done" /\ arg.fn = "extract_body"
    /\ \E i, j \in 1..Len(arg.content) :
          /\ BodyStart(arg.content) < i /\ i < j
          /\ MatchAt(arg.content, <<"\\", "appendix">>, i)
          /\ MatchAt(arg.content, <<"\\", "bibliography", "{">>, j)
          /\ res.text = Strip(SubSeq(arg.content, BodyStart(arg.content), i - 1))
          /\ res.text # <<>>

FindMainReturned == pc = "done" /\ arg.fn = "find_main_tex_file"

\* the files of the list that hold \documentclass
MarkerFiles == {arg.tex_files[i] : i \in {i \in 1..Len(arg.tex_files) : HasDocClass(arg.tex_files[i])}}

\* the result is the marker file with the earliest name of the priority list
\* names, whenever a marker file has a name of that list
ConventionalFirst(names) ==
    LET ranks == {k \in 1..Len(names) : \E e \in MarkerFiles : NameOf(e) = names[k]}
    IN  ranks # {} => /\ res.entry \in MarkerFiles
                      /\ NameOf(res.entry) = names[Least(ranks)]

\* C16 (as stated): find_main_tex_file returns the marker file with the
\* earliest name of the priority list main, paper, manuscript, article
\* whenever there is one, whatever the sizes of the other files, and never a
\* file without the marker.
C16_ClaimedNamesFirst ==
    FindMainReturned =>
        /\ ConventionalFirst(<<TexName("main"), TexName("paper"), TexName("manuscript"),
                               TexName("article")>>)
        /\ res.entry # NoEntry => res.entry \in MarkerFiles

\* C16 (amended): find_main_tex_file returns the marker file with the
\* earliest name of the priority list main.tex, paper.tex, ms.tex,
\* article.tex whenever there is one, whatever the sizes of the other files,
\* and never a file without the marker.
C16_CommonNamesFirst ==
    FindMainReturned =>
        /\ ConventionalFirst(<<TexName("main"), TexName("paper"), TexName("ms"),
                               TexName("article")>>)
        /\ res.entry # NoEntry => res.entry \in MarkerFiles

\* ms.tex is returned although a longer file with the marker comes first
C16_Witness ==
    /\ FindMainReturned /\ res.entry # NoEntry
    /\ NameOf(res.entry) = TexName("ms")
    /\ \E e \in MarkerFiles : /\ NameOf(e) = TexName("big")
                              /\ TextLen(e.content) > TextLen(res.entry.content)
                              /\ arg.tex_files[1] = e

\* C17 (as stated): when no conventionally named file holds the marker,
\* find_main_tex_file returns the marker file of largest byte length, the
\* first encountered among files of equal length, and it returns none
\* exactly when no .tex file holds the marker.
C17_LargestByteLength ==
    FindMainReturned =>
        /\ res.entry = NoEntry <=> MarkerFiles = {}
        /\ (MarkerFiles # {}
              /\ \A e \in MarkerFiles, k \in 1..Len(COMMON_NAMES) : NameOf(e) # COMMON_NAMES[k])
           => \E i \in 1..Len(arg.tex_files) :
                 /\ res.entry = arg.tex_files[i]
                 /\ \A j \in 1..Len(arg.tex_files) :
                       arg.tex_files[j] \in MarkerFiles =>
                          \/ TextBytes(arg.tex_files[j].content) < TextBytes(res.entry.content)
                          \/ /\ TextBytes(arg.tex_files[j].content) = TextBytes(res.entry.content)
                             /\ i <= j

MarkdownReturned == pc = "done" /\ arg.fn = "_latex_to_markdown"

\* pandoc is installed, ran to exit code 0 and wrote more than white space
PandocSucceeded ==
    /\ arg.have_pandoc
    /\ arg.run.kind = "exit" /\ arg.run.code = 0
    /\ \E i \in 1..Len(arg.run.stdout) : ~IsSpace(arg.run.stdout[i])

\* C18: when pandoc is absent, exits with a non-zero code, writes no output,
\* times out or cannot be started, _latex_to_markdown returns exactly
\* clean_latex(body) and does not raise; it returns the output of pandoc,
\* trimmed, only on exit code zero with non-empty output.
C18_FallbackIsCleanLatex ==
    MarkdownReturned =>
        /\ res.kind = "return"
        /\ ~PandocSucceeded => res.text = clean_latex(arg.body)
        /\ PandocSucceeded => res.text = Strip(arg.run.stdout)

\* pandoc wrote Markdown and then failed: the cleaned text is returned, and
\* it is neither the body nor what pandoc wrote
C18_Witness ==
    /\ MarkdownReturned
    /\ arg.have_pandoc /\ arg.run.kind = "exit" /\ arg.run.code # 0 /\ arg.run.stdout # <<>>
    /\ res.text = clean_latex(arg.body)
    /\ res.text \notin {<<>>, arg.body, Strip(arg.run.stdout)}

\* the text has a section heading with the title Introduction or introduction
HasIntroSection ==
    arg.heading # <<>> /\ arg.heading[Len(arg.heading) - 1] \in {"Introduction", "introduction"}

\* extract_introduction has returned for a text with an introduction section
IntroReturned == pc = "done" /\ arg.fn = "extract_introduction" /\ HasIntroSection

\* the normalized text of the introduction section
NormalizedIntro == clean_latex(arg.intro)

\* the text t starts with the characters of the text s: with its words and
\* signs, the last of them possibly cut short
StartsWith(t, s) ==
    /\ Len(s) <= Len(t)
    /\ \A k \in 1..(Len(s) - 1) : s[k] = t[k]
    /\ s # <<>> =>
          LET a == s[Len(s)]
              b == t[Len(s)]
          IN  a = b \/ (a # NonAsciiLetter /\ b # NonAsciiLetter
                          /\ Len(a) < Len(b) /\ a = SubSeq(b, 1, Len(a)))

HasParentSegment(name) ==
    IsAbsolute(name) \/ \E k \in 1..Len(Split(name)) : Split(name)[k] = DotDot

\* C21 (as stated): for a tar archive that mixes safe and unsafe member
\* names, extract_source returns true, extracts every member whose name is
\* neither absolute nor has a '..' segment, and skips exactly the others.
C21_SafeExtractedUnsafeSkipped ==
    (/\ mode = "tar" /\ pc = "done"
     /\ \E i \in 1..Len(xdata.members) : HasParentSegment(xdata.members[i].name)
     /\ \E i \in 1..Len(xdata.members) : ~HasParentSegment(xdata.members[i].name))
    => /\ xret = "True"
       /\ xout = {}
       /\ \A i \in 1..Len(xdata.members) :
             ~HasParentSegment(xdata.members[i].name) =>
                IsFileIn(xtree, Resolve(Split(RStripSlash(xdata.members[i].name))).segs)

\* extract_dir holds main.tex with the given text, and nothing else
OnlyMainTex(text) == xtree = {FileEntry(<<MainTexName>>, text)}

\* C22 (as stated): extract_source tries tar.gz, then gzip, then plain text;
\* the output of gzip and an accepted plain text are written as main.tex;
\* plain text is accepted only if it holds \documentclass or
\* \begin{document}; the call returns false exactly when all three attempts
\* fail, and never raises.
C22_ThreeAttempts ==
    (mode = "tar" /\ pc = "done") =>
        /\ xret \in {"True", "False"}
        /\ xdata.fmt = "targz" => xret = "True"
        /\ (xdata.fmt = "gzip" /\ xdata.complete) =>
              xret = "True" /\ OnlyMainTex(xdata.payload)
        /\ (xdata.fmt = "gzip" /\ ~xdata.complete) => xret = "False"
        /\ xdata.fmt = "text" =>
              IF Contains(xdata.payload, DocClassMark) \/ Contains(xdata.payload, BeginDocMark)
              THEN xret = "True" /\ OnlyMainTex(xdata.payload)
              ELSE xret = "False" /\ xtree = EmptyTree
        /\ xdata.fmt = "binary" => xret = "False" /\ xtree = EmptyTree

\* the fetch failed: 404, another error status, a timeout or a connection error
FetchFailed(resp) == resp.kind = "exception" \/ resp.status_code >= 400

\* a call of the run has returned the outcome no_source
NoSourceReturned == mode = "main" /\ pc = "dp_returned" /\ cur.status = "no_source"

\* C23: a fetch answered with 404, with another error status, or ended by a
\* timeout or a connection error makes download_paper return the outcome
\* no_source without raising, and the run goes on: the record is appended
\* and the loop moves to the next paper of the roster.
C23_FailedFetchGoesOn ==
    [][/\ pc = "dp_fetch" =>
            \A resp \in Responses :
               (FetchFailed(resp) /\ DP_FetchWith(resp)) =>
                  /\ cur'.status = "no_source" /\ cur'.exc = None
                  /\ stats'.no_source = stats.no_source + 1
                  /\ pc' = "dp_finally"
       /\ (pc = "dp_finally" /\ cur.status = "no_source") =>
             ret'.kind = "return" /\ ret'.record.status = "no_source"
       /\ NoSourceReturned =>
             /\ pc' = "m_loop" /\ idx' = idx + 1
             /\ download_metadata' = Append(download_metadata, ret.record)]_vars

\* the first paper of the roster had no source, and the second one is being
\* fetched
C23_Witness ==
    /\ mode = "main" /\ pc = "dp_fetch" /\ idx = 1
    /\ download_metadata[1].status = "no_source"

\* the text holds no percent sign except after a backslash
NoCommentText(text) == \A i \in 1..Len(text) : text[i] = "%" => At(text, i - 1) = "\\"

\* C24 (as stated): the flattened text handed to the extractors holds no
\* comment: every span from an unescaped % to the end of its line is gone,
\* from the text of the main file and from the text substituted for the
\* inclusion directives.
C24_NoCommentInFlattened ==
    (pc = "done" /\ arg.fn = "parse") => NoCommentText(res.flat)

\* the number of records of the list that carry the outcome s
RecordsWith(s) == Cardinality({i \in 1..Len(download_metadata) : download_metadata[i].status = s})

\* the run of main is over
RunOver == mode = "main" /\ pc \in {"m_done", "m_crashed"}

\* C25 (as stated): after a run over a roster of n papers the record list
\* holds n records in roster order, each with the identifier of its paper, a
\* timestamp and the outcome whose counter was incremented for it; the size is
\* the length of the written artifact for success and 0 otherwise; the
\* summary is written once, after the last paper.
C25_RunRecords ==
    /\ (mode = "main" /\ pc \notin {"m_done", "m_crashed"}) => summary = 0
    /\ RunOver =>
          /\ Len(download_metadata) = Len(roster)
          /\ \A i \in 1..Len(download_metadata) :
                LET r == download_metadata[i] IN
                /\ r.arxiv_id = roster[i]
                /\ r.timestamp = "now"
                /\ r.status \in Statuses
                /\ r.size_bytes = IF r.status = "success" THEN TextLen(files[r.arxiv_id]) ELSE 0
          /\ \A s \in Statuses : stats[s] = RecordsWith(s)
          /\ summary = 1

\* position i of s lies in a comment: on its line, at or before i, there is a
\* percent sign that no backslash precedes
InComment(s, i) ==
    \E k \in 1..i : /\ s[k] = "%" /\ At(s, k - 1) # "\\"
                    /\ \A j \in k..i : s[j] # "\n"

\* C26: strip_comments removes, on every line, exactly the text from the
\* first % that no backslash precedes to the end of that line; the line
\* breaks, every % that follows a backslash and all other text stay, in order.
C26_CommentsStripped ==
    (pc = "done" /\ arg.fn = "strip_comments") =>
        LET s == arg.content
            kept == {i \in 1..Len(s) : ~InComment(s, i)}
        IN  /\ Len(res.text) = Cardinality(kept)
            /\ \A i \in kept : res.text[Cardinality({j \in kept : j <= i})] = s[i]
            /\ \A i \in 1..Len(s) : s[i] = "\n" => i \in kept
            /\ \A i \in 2..Len(s) : (s[i] = "%" /\ s[i - 1] = "\\" /\ (i - 1) \in kept) => i \in kept

\* an escaped percent sign is kept, the comment after it is removed and the
\* line break stays
C26_Witness ==
    /\ pc = "done" /\ arg.fn = "strip_comments"
    /\ arg.content = <<"\\", "%", "%", "x", "\n">>
    /\ res.text = <<"\\", "%", "\n">>

\* at i starts a section heading whose title is "introduction" in any case,
\* with or without a numeral, a period and blanks before it
IntroHeadingAnyCaseAt(s, i) ==
    LET d == DigitsEnd(s, i + 3)
        t == IF d = i + 3 THEN d ELSE SpacesEnd(s, IF At(s, d) = "." THEN d + 1 ELSE d)
    IN  /\ MatchAt(s, <<"\\", "section", "{">>, i)
        /\ Lower(At(s, t)) = "introduction"
        /\ At(s, t + 1) = "}"

\* C27 (as stated): extract_introduction recognises the introduction heading
\* in any case, with or without a numeral and a period before the title, and
\* returns the empty string only when the text has no such heading.
C27_HeadingAnyCase ==
    (pc = "done" /\ arg.fn = "extract_introduction" /\ res.text = <<>>) =>
        \A i \in 1..Len(arg.content) : ~IntroHeadingAnyCaseAt(arg.content, i)

\* a separator of a keyword list starts at i: a comma, a semicolon, or \sep
\* with no letter after it; and the position after that separator
KwSeparatorAt(raw, i) ==
    \/ raw[i] \in {",", ";"}
    \/ raw[i] = "\\" /\ At(raw, i + 1) = "sep" /\ ~IsWordChar(At(raw, i + 2))
AfterKwSeparator(raw, i) == IF raw[i] = "\\" THEN i + 2 ELSE i + 1

\* the piece of raw that ends before position j, a separator or the end
KwPiece(raw, j) ==
    LET before == {i \in 1..(j - 1) : KwSeparatorAt(raw, i)}
        from == IF before = {} THEN 1
                ELSE AfterKwSeparator(raw, CHOOSE i \in before : \A k \in before : k <= i)
    IN  SubSeq(raw, from, j - 1)

\* C28: extract_keywords takes the first non-empty of the \keywords{...}
\* argument, the keywords environment and the IEEEkeywords environment,
\* splits it on commas, semicolons and \sep, normalizes each piece, drops
\* the empty ones and returns the others in source order.
C28_KeywordsInOrder ==
    (pc = "done" /\ arg.fn = "extract_keywords") =>
        LET raw == IF arg.cmd # <<>> THEN arg.cmd
                   ELSE IF arg.env # <<>> THEN arg.env ELSE arg.ieee
            ends == {j \in 1..(Len(raw) + 1) : j = Len(raw) + 1 \/ KwSeparatorAt(raw, j)}
            kept == {j \in ends : clean_latex(KwPiece(raw, j)) # <<>>}
        IN  /\ Len(res.keywords) = (IF raw = <<>> THEN 0 ELSE Cardinality(kept))
            /\ raw # <<>> =>
                  \A j \in kept :
                     res.keywords[Cardinality({k \in kept : k <= j})] = clean_latex(KwPiece(raw, j))

\* three terms in the command, separated by a comma and \sep, give three
\* keywords, and the keywords environment of the text is not looked at
C28_Witness ==
    /\ pc = "done" /\ arg.fn = "extract_keywords"
    /\ arg.cmd = <<"a", ",", " ", "b", " ", "\\", "sep", " ", "\\", "emph", "{", "c", "}">>
    /\ arg.env = <<"z">>
    /\ res.keywords = << <<"a">>, <<"b">>, <<"c">> >>

\* every directive of the text names a file outside base_dir: its name is
\* absolute or its parent steps lead out
AllDirectivesEscape(text) ==
    \A i \in 1..Len(text) :
        LET j == InputDirectiveEnd(text, i)
        IN  j # 0 => Escapes(SubSeq(text, i + 3, j - 1))

\* C29 (as stated): expand_inputs reads files inside the extracted tree only:
\* a directive whose file name is absolute or leads out of the extraction
\* directory with '..' is not resolved, the content of that file never
\* enters the flattened text, and the directive stays verbatim.
C29_OnlyInsideTree ==
    (pc = "done" /\ arg.fn = "expand_inputs" /\ res.kind = "return") =>
        /\ \A k \in 1..Len(res.text) : res.text[k] \notin OutsideText
        /\ AllDirectivesEscape(arg.content) => res.text = arg.content

\* the text is brace-balanced: as many unescaped opening as closing braces,
\* and no prefix with more closing than opening ones
Balanced(text) ==
    /\ DepthOver(text, 0, Len(text) - 1) = 0
    /\ \A k \in 0..(Len(text) - 1) : DepthOver(text, 0, k) >= 0

\* C30 (as stated): for every text and every start index, an index at a
\* brace that follows a backslash included, the text returned by
\* extract_braced_content is brace-balanced.
C30_ResultBalanced ==
    (pc = "done" /\ arg.fn = "extract_braced_content") => Balanced(res.text)

====
